---- MODULE Spec2Model ----
(***************************************************************************)
(* Hot-reload runtime: the dynamic module loader (platform/dll_loader.h),  *)
(* the file-time collaborator (platform/file_watcher.h), the simulation    *)
(* module's entry point (game.cpp) and the host loop that composes them    *)
(* (platform/linux_main.cpp).  The file system (lock file, build output,   *)
(* temp copies) is part of the state and is rewritten by an external build *)
(* process between any two host steps.                                     *)
(*                                                                         *)
(* The bump allocator (lib/memory_arena.h) and its checkpoints are a       *)
(* second specification, SpecArena, over their own variables.  The render  *)
(* command protocol (game_interface.h: the writer in game.cpp, the reader  *)
(* execute_render_commands of each host) and the batching renderer are a   *)
(* third, SpecRender.  SpecLoop is the control flow of one iteration of    *)
(* each host (platform/linux_main.cpp, main.win32.cpp, renderer.cpp for    *)
(* macOS, main.cpp for sokol) with the loader reduced to its outcome.      *)
(* SpecInput is the input handling of those loops (process_button_event,   *)
(* reset_input_half_transitions).  SpecRace runs platform_load_game_code   *)
(* statement by statement against the steps of the build script            *)
(* (build/build_osx.sh).                                                   *)
(***************************************************************************)
EXTENDS Integers, Sequences, FiniteSets, TLC

\* ---------------------------------------------------------------- bounds
MaxLoads == 3        \* load attempts that get past the lock check
MaxTime == 2         \* distinct modification times the build can produce
ShuffleWrap == 2     \* the rng position is tracked modulo this
MaxPushes == 2       \* pushes attempted on one arena
MaxTemps == 2        \* checkpoints alive at once
MaxCmds == 3         \* commands the module writes in one frame
MaxSpin == 2         \* reader loop iterations counted at one cursor
MAX_QUADS == 2       \* capacity of the vertex buffer, in quads
MaxEvents == 2       \* window events handled between two count resets

\* ------------------------------------------------------- program constants
GAME_CODE_VERSION == 1
RearrangeTicks == 2
RavioliCount == 2

\* What a module file on disk can be: not loadable at all, loadable without
\* the required entry point, loadable with the entry point only, loadable
\* with the entry point and game_get_version.
Kinds == {"bad", "noentry", "nover", "good"}
\* What the build output is while and after the linker writes it: a partly
\* written file, or one of the complete modules; "newer" is a module built
\* against a later GAME_CODE_VERSION.
BuildKinds == {"nover", "good", "newer"}
Loadable(k) == k \notin {"bad", "partial"}
HasEntry(k) == k \in {"nover", "good", "newer"}
HasVersion(k) == k \in {"good", "newer"}
\* The value the module's game_get_version returns.
game_get_version(k) ==
    IF k = "newer" THEN GAME_CODE_VERSION + 1 ELSE GAME_CODE_VERSION

VARIABLES
    lock_tmp,            \* "lock.tmp" exists
    libgame,             \* the build output "out/libgame.so"
    temp_files,          \* temp copies on disk: counter suffix -> content
    loaded_modules,      \* modules open in the process: handle -> content
    g_dll_load_counter,
    g_game_dll,
    g_game_code,
    g_game_memory,
    g_render_commands,   \* commands in the render arena, in write order
    g_running,
    pc,                  \* position of the host in main()
    trace,               \* calls and file operations of the last host step
    prev_suffix,         \* suffix of the latest temp path generated, or -1
    polled_time,         \* write time read by the latest poll, or -1
    issued,              \* suffixes of all temp paths generated so far
    init_runs,           \* executions of the module's initialisation block
    init_by,             \* handle of the module whose call ran that block
    replayed,            \* commands dispatched by the last replay
    arena,               \* a MemoryArena: base, size, used
    temps,               \* live TemporaryMemory checkpoints, oldest first
    begin_used,          \* arena.used when each live checkpoint was made
    trapped,             \* a failed ASSERT ended the process
    last,                \* the latest arena operation and what it returned
    pushed,              \* <<size, alignment>> of the pushes since make
    fresh,               \* nothing but successful pushes since make
    npush,               \* pushes attempted
    reader,              \* the host whose execute_render_commands runs
    cmd_memory,          \* the render arena's block, one 4-byte word each
    written,             \* commands the module wrote this frame
    rpc,                 \* frame position: "write", "replay", "done"
    at,                  \* the reader's cursor, a byte offset from base
    dispatched,          \* renderer calls the reader made this frame
    iterations,          \* reader loop iterations that moved nothing
    renderer,            \* Renderer fields, vertex buffer, GL state
    immediate,           \* the frame's quads drawn one by one, for reference
    platform,            \* the host whose loop runs
    module,              \* the simulation module the call table points to
    phases,              \* what the current iteration has done so far
    wrote,               \* commands this iteration's simulation call wrote
    sim_entry,           \* commands in the buffer when that call began, or -1
    g_game_input,        \* the GameInput the host lends to the module
    events,              \* window events handled since the last count reset
    seen,                \* what the iteration's simulation call was handed
    result,              \* the local `result` of a load in progress
    build,               \* position of the build script
    copied_from          \* the source file as the latest copy found it

vars == <<lock_tmp, libgame, temp_files, loaded_modules, g_dll_load_counter,
          g_game_dll, g_game_code, g_game_memory, g_render_commands,
          g_running, pc, trace, prev_suffix, polled_time, issued, init_runs,
          init_by, replayed, arena, temps, begin_used, trapped, last, pushed,
          fresh, npush, reader, cmd_memory, written, rpc, at, dispatched,
          iterations, renderer, immediate, platform, module, phases, wrote,
          sim_entry, g_game_input, events, seen, result, build,
          copied_from>>

vars_host == <<lock_tmp, libgame, temp_files, loaded_modules,
               g_dll_load_counter, g_game_dll, g_game_code, g_game_memory,
               g_render_commands, g_running, pc, trace, prev_suffix,
               polled_time, issued, init_runs, init_by, replayed>>
arenavars == <<arena, temps, begin_used, trapped, last, pushed, fresh, npush>>
rendervars == <<reader, cmd_memory, written, rpc, at, dispatched, iterations,
                renderer, immediate>>
loopvars == <<platform, module, phases, wrote, sim_entry>>
inputvars == <<g_game_input, events, seen>>
racevars == <<result, build, copied_from>>
\* what the host loop and the build process never touch
auxvars == <<arenavars, rendervars, loopvars, inputvars, racevars>>

fsvars == <<lock_tmp, libgame, temp_files>>
loadervars == <<loaded_modules, g_dll_load_counter, g_game_dll, g_game_code,
                prev_suffix, polled_time, issued>>

Count(s, e) == Cardinality({i \in DOMAIN s : s[i] = e})
Has(s, e) == \E i \in DOMAIN s : s[i] = e

\* ------------------------------------------------------------ file system
NoFile == [exists |-> FALSE, mtime |-> 0, kind |-> "bad"]
SourceFiles == {NoFile} \cup
    [exists : {TRUE}, mtime : 1..MaxTime, kind : Kinds]

platform_get_file_write_time(f) == IF f.exists THEN f.mtime ELSE 0

\* Variant: only a newer write time counts as a change.
platform_file_time_changed_newer(old_time, new_time) == new_time > old_time

platform_file_time_changed(old_time, new_time) == old_time # new_time

\* Variant: the lock file is never seen.
platform_file_exists_never(present) == FALSE

platform_file_exists(present) == present

\* Copies the source's bytes to temp path `dest`; silent when the source
\* cannot be opened.
platform_copy_file(source, files, dest) ==
    IF ~source.exists THEN files
    ELSE [n \in (DOMAIN files) \cup {dest} |->
             IF n = dest THEN source.kind ELSE files[n]]

unlink(files, path) == [n \in (DOMAIN files) \ {path} |-> files[n]]

\* ----------------------------------------------------------------- loader
EmptyPath == -1      \* temp_dll_path[0] == '\0'
NullHandle == 0

\* PlatformDLL result = {}; the three path members are constant and left out.
ZeroDLL == [handle |-> NullHandle, temp_dll_path |-> EmptyPath,
            last_write_time |-> 0, is_valid |-> FALSE]

\* GameCode result = {}
ZeroGameCode == [update_and_render |-> NullHandle, is_valid |-> FALSE,
                 version |-> 0]

\* Variant: any file that exists can be opened.
dlopen_any(files, path) ==
    IF path \in DOMAIN files THEN path + 1 ELSE NullHandle

\* dlopen of temp path `path`: a non-null handle (the suffix plus one) when
\* the file exists and is a loadable module, else null.
dlopen(files, path) ==
    IF path \in DOMAIN files /\ Loadable(files[path]) THEN path + 1
    ELSE NullHandle

\* dlsym: the symbol is found when the handle is an open module exporting it.
dlsym(modules, handle, symbol) ==
    /\ handle \in DOMAIN modules
    /\ IF symbol = "game_update_and_render" THEN HasEntry(modules[handle])
       ELSE HasVersion(modules[handle])

\* g_dll_load_counter is a u32; every load that gets past the lock check is
\* guarded by MaxLoads, far below the point where it would wrap.
\* Each loader operation returns the new values of what it can write
\* (the handle record, the temp files, the open modules, the counter) and
\* `ev`, the system calls and diagnostics it performed, in order.

\* Variant: the counter only advances when the copy could be opened.
platform_load_game_code_count_on_success(lock, source, files, modules, counter) ==
    IF platform_file_exists(lock)
    THEN [dll |-> ZeroDLL, files |-> files, modules |-> modules,
          counter |-> counter, ev |-> <<"access">>]
    ELSE LET path == counter
             copied == platform_copy_file(source, files, path)
             handle == dlopen(copied, path)
         IN IF handle = NullHandle
            THEN [dll |-> [ZeroDLL EXCEPT !.temp_dll_path = path],
                  files |-> copied, modules |-> modules,
                  counter |-> counter,
                  ev |-> <<"access", "copy", "dlopen", "print:dlopen failed">>]
            ELSE [dll |-> [handle |-> handle, temp_dll_path |-> path,
                           last_write_time |->
                               platform_get_file_write_time(source),
                           is_valid |-> TRUE],
                  files |-> copied,
                  modules |-> [h \in (DOMAIN modules) \cup {handle} |->
                                  IF h = handle THEN copied[path]
                                  ELSE modules[h]],
                  counter |-> counter + 1,
                  ev |-> <<"access", "copy", "dlopen", "stat">>]

\* Variant: the write time of the source is not recorded after a load.
platform_load_game_code_no_time(lock, source, files, modules, counter) ==
    IF platform_file_exists(lock)
    THEN [dll |-> ZeroDLL, files |-> files, modules |-> modules,
          counter |-> counter, ev |-> <<"access">>]
    ELSE LET path == counter
             copied == platform_copy_file(source, files, path)
             handle == dlopen(copied, path)
         IN IF handle = NullHandle
            THEN [dll |-> [ZeroDLL EXCEPT !.temp_dll_path = path],
                  files |-> copied, modules |-> modules,
                  counter |-> counter + 1,
                  ev |-> <<"access", "copy", "dlopen", "print:dlopen failed">>]
            ELSE [dll |-> [handle |-> handle, temp_dll_path |-> path,
                           last_write_time |-> 0, is_valid |-> TRUE],
                  files |-> copied,
                  modules |-> [h \in (DOMAIN modules) \cup {handle} |->
                                  IF h = handle THEN copied[path]
                                  ELSE modules[h]],
                  counter |-> counter + 1,
                  ev |-> <<"access", "copy", "dlopen">>]

platform_load_game_code(lock, source, files, modules, counter) ==
    IF platform_file_exists(lock)
    THEN [dll |-> ZeroDLL, files |-> files, modules |-> modules,
          counter |-> counter, ev |-> <<"access">>]
    ELSE LET path == counter
             copied == platform_copy_file(source, files, path)
             handle == dlopen(copied, path)
         IN IF handle = NullHandle
            THEN [dll |-> [ZeroDLL EXCEPT !.temp_dll_path = path],
                  files |-> copied, modules |-> modules,
                  counter |-> counter + 1,
                  ev |-> <<"access", "copy", "dlopen", "print:dlopen failed">>]
            ELSE [dll |-> [handle |-> handle, temp_dll_path |-> path,
                           last_write_time |->
                               platform_get_file_write_time(source),
                           is_valid |-> TRUE],
                  files |-> copied,
                  modules |-> [h \in (DOMAIN modules) \cup {handle} |->
                                  IF h = handle THEN copied[path]
                                  ELSE modules[h]],
                  counter |-> counter + 1,
                  ev |-> <<"access", "copy", "dlopen", "stat">>]

\* Variant: the temp file is left on disk.
platform_unload_game_code_no_unlink(dll, files, modules) ==
    LET closing == dll.handle # NullHandle
    IN [dll |-> [dll EXCEPT !.handle = NullHandle,
                            !.temp_dll_path = EmptyPath,
                            !.is_valid = FALSE],
        files |-> files,
        modules |-> IF closing
                    THEN [h \in (DOMAIN modules) \ {dll.handle} |-> modules[h]]
                    ELSE modules,
        ev |-> IF closing THEN <<"dlclose">> ELSE <<>>]

\* Variant: dlclose and unlink are called without looking at the handle
\* and the path.
platform_unload_game_code_unguarded(dll, files, modules) ==
    [dll |-> [dll EXCEPT !.handle = NullHandle,
                         !.temp_dll_path = EmptyPath,
                         !.is_valid = FALSE],
     files |-> unlink(files, dll.temp_dll_path),
     modules |-> [h \in (DOMAIN modules) \ {dll.handle} |-> modules[h]],
     ev |-> <<"dlclose", "unlink">>]

platform_unload_game_code(dll, files, modules) ==
    LET closing == dll.handle # NullHandle
        deleting == dll.temp_dll_path # EmptyPath
    IN [dll |-> [dll EXCEPT !.handle = NullHandle,
                            !.temp_dll_path = EmptyPath,
                            !.is_valid = FALSE],
        files |-> IF deleting THEN unlink(files, dll.temp_dll_path)
                  ELSE files,
        modules |-> IF closing
                    THEN [h \in (DOMAIN modules) \ {dll.handle} |-> modules[h]]
                    ELSE modules,
        ev |-> (IF closing THEN <<"dlclose">> ELSE <<>>) \o
               (IF deleting THEN <<"unlink">> ELSE <<>>)]

\* Variant: the call table is reported valid whenever the module is.
platform_get_game_code_unchecked(dll, modules) ==
    IF ~dll.is_valid THEN [code |-> ZeroGameCode, ev |-> <<>>]
    ELSE LET found == dlsym(modules, dll.handle, "game_update_and_render")
             get_version == dlsym(modules, dll.handle, "game_get_version")
         IN [code |-> [update_and_render |->
                           IF found THEN dll.handle ELSE NullHandle,
                       is_valid |-> dll.is_valid,
                       version |-> IF get_version
                                   THEN game_get_version(modules[dll.handle])
                                   ELSE 0],
             ev |-> <<"dlsym", "dlsym">>]

\* Variant: the host's own GAME_CODE_VERSION is reported.
platform_get_game_code_own_version(dll, modules) ==
    IF ~dll.is_valid THEN [code |-> ZeroGameCode, ev |-> <<>>]
    ELSE LET found == dlsym(modules, dll.handle, "game_update_and_render")
         IN [code |-> [update_and_render |->
                           IF found THEN dll.handle ELSE NullHandle,
                       is_valid |-> found,
                       version |-> GAME_CODE_VERSION],
             ev |-> <<"dlsym", "dlsym">> \o
                    (IF found THEN <<>>
                     ELSE <<"print:Failed to load game functions">>)]

platform_get_game_code(dll, modules) ==
    IF ~dll.is_valid THEN [code |-> ZeroGameCode, ev |-> <<>>]
    ELSE LET found == dlsym(modules, dll.handle, "game_update_and_render")
             get_version == dlsym(modules, dll.handle, "game_get_version")
         IN [code |-> [update_and_render |->
                           IF found THEN dll.handle ELSE NullHandle,
                       is_valid |-> found,
                       version |-> IF get_version
                                   THEN game_get_version(modules[dll.handle])
                                   ELSE 0],
             ev |-> <<"dlsym", "dlsym">> \o
                    (IF found THEN <<>>
                     ELSE <<"print:Failed to load game functions">>)]

\* The result of one poll: unchanged when the write time is the stored one,
\* else unload, load and resolve.
\* Variant: the call table is only replaced when the new load succeeded.
platform_reload_game_code_if_changed_keep(dll, code, lock, source, files, modules, counter) ==
    LET new_write_time == platform_get_file_write_time(source)
    IN IF platform_file_time_changed(dll.last_write_time, new_write_time)
       THEN LET u == platform_unload_game_code(dll, files, modules)
                l == platform_load_game_code(lock, source, u.files,
                                             u.modules, counter)
                g == platform_get_game_code(l.dll, l.modules)
            IN [dll |-> l.dll,
                code |-> IF l.dll.is_valid THEN g.code ELSE code,
                files |-> l.files,
                modules |-> l.modules, counter |-> l.counter,
                ev |-> <<"stat", "unload">> \o u.ev \o <<"load">> \o l.ev
                       \o <<"get_game_code">> \o g.ev]
       ELSE [dll |-> dll, code |-> code, files |-> files,
             modules |-> modules, counter |-> counter, ev |-> <<"stat">>]

\* Variant: the call table is not resolved again after a reload.
platform_reload_game_code_if_changed_stale(dll, code, lock, source, files, modules, counter) ==
    LET new_write_time == platform_get_file_write_time(source)
    IN IF platform_file_time_changed(dll.last_write_time, new_write_time)
       THEN LET u == platform_unload_game_code(dll, files, modules)
                l == platform_load_game_code(lock, source, u.files,
                                             u.modules, counter)
            IN [dll |-> l.dll, code |-> code, files |-> l.files,
                modules |-> l.modules, counter |-> l.counter,
                ev |-> <<"stat", "unload">> \o u.ev \o <<"load">> \o l.ev]
       ELSE [dll |-> dll, code |-> code, files |-> files,
             modules |-> modules, counter |-> counter, ev |-> <<"stat">>]

platform_reload_game_code_if_changed(dll, code, lock, source, files, modules, counter) ==
    LET new_write_time == platform_get_file_write_time(source)
    IN IF platform_file_time_changed(dll.last_write_time, new_write_time)
       THEN LET u == platform_unload_game_code(dll, files, modules)
                l == platform_load_game_code(lock, source, u.files,
                                             u.modules, counter)
                g == platform_get_game_code(l.dll, l.modules)
            IN [dll |-> l.dll, code |-> g.code, files |-> l.files,
                modules |-> l.modules, counter |-> l.counter,
                ev |-> <<"stat", "unload">> \o u.ev \o <<"load">> \o l.ev
                       \o <<"get_game_code">> \o g.ev]
       ELSE [dll |-> dll, code |-> code, files |-> files,
             modules |-> modules, counter |-> counter, ev |-> <<"stat">>]

\* ------------------------------------------------------ simulation module
PermanentSize == 67108864      \* MB(64)
TransientSize == 268435456     \* MB(256)

\* permanent_storage as the OS hands it out: zero-filled.  The GameState at
\* its start is tracked as the countdown to the next rearrangement (in
\* frames) and the number of randomisation passes the rng went through.
ZeroGameState == [rearrange_timer |-> 0, rng_steps |-> 0]

randomize_ravioli_positions(state) ==
    [state EXCEPT !.rng_steps = (@ + 1) % ShuffleWrap]

\* Variant: the initialisation block is not guarded by is_initialized.
game_update_and_render_reinit(memory) ==
    LET initialised ==
            randomize_ravioli_positions(
                [memory.state EXCEPT !.rng_steps = 0,
                                     !.rearrange_timer = RearrangeTicks])
        ticked == [initialised EXCEPT !.rearrange_timer = @ - 1]
    IN [memory |-> [memory EXCEPT !.state = ticked,
                                  !.is_initialized = TRUE],
        cmds |-> <<"Clear">> \o [i \in 1..RavioliCount |-> "AtlasSprite"],
        init |-> TRUE]

\* One call of the entry point on the host's memory: the memory afterwards,
\* the commands appended to the (empty) buffer, whether the one-time block
\* ran.
game_update_and_render(memory) ==
    LET first == ~memory.is_initialized
        initialised ==
            IF first
            THEN randomize_ravioli_positions(
                     [memory.state EXCEPT !.rng_steps = 0,
                                          !.rearrange_timer = RearrangeTicks])
            ELSE memory.state
        ticked == [initialised EXCEPT !.rearrange_timer = @ - 1]
        updated == IF ticked.rearrange_timer <= 0
                   THEN [randomize_ravioli_positions(ticked)
                             EXCEPT !.rearrange_timer = RearrangeTicks]
                   ELSE ticked
    IN [memory |-> [memory EXCEPT !.state = updated,
                                  !.is_initialized = TRUE],
        cmds |-> <<"Clear">> \o [i \in 1..RavioliCount |-> "AtlasSprite"],
        init |-> first]

\* ------------------------------------------------- lib/memory_arena.h
\* usize is UsizeBits wide; every usize addition and multiplication below is
\* taken modulo UsizeMod, as the machine does.  The width is scaled down
\* from 64 so that the whole range can be enumerated.
UsizeBits == 13
UsizeMod == 2 ^ UsizeBits
\* What platform_alloc returns is page aligned.
Page == 4096
\* alignof(max_align_t), the default alignment of push_size
MaxAlign == 16
\* Arena capacity, scaled down from MB(4) and MB(64).
ArenaSize == 1024

sizeof(T) ==
    CASE T = "u8" -> 1
      [] T = "u32" -> 4
      [] T = "RenderCommandHeader" -> 4
      [] T = "RenderCommandClear" -> 8
      [] T = "RenderCommandRect" -> 24
      [] T = "RenderCommandSprite" -> 28
      [] T = "RenderCommandAtlasSprite" -> 44
      [] T = "GameState" -> 48

alignof(T) ==
    CASE T = "u8" -> 1
      [] T = "GameState" -> 8
      [] OTHER -> 4

MemoryArena_make(buffer, size_bytes) ==
    [base |-> buffer, size |-> size_bytes, used |-> 0]

\* Variant: the size, not the offset, is rounded up to the alignment.
push_size_round_size(a, size_bytes, alignment) ==
    LET t == (size_bytes + (alignment - 1)) % UsizeMod
        end == (a.used + (t - (t % alignment))) % UsizeMod
    IN IF end <= a.size
       THEN [arena |-> [a EXCEPT !.used = end],
             result |-> a.base + a.used, trap |-> FALSE]
       ELSE [arena |-> a, result |-> 0, trap |-> TRUE]

\* Variant: the capacity is not checked.
push_size_unchecked(a, size_bytes, alignment) ==
    LET t == (a.used + (alignment - 1)) % UsizeMod
        aligned_offset == t - (t % alignment)
        end == (aligned_offset + size_bytes) % UsizeMod
    IN [arena |-> [a EXCEPT !.used = end],
        result |-> a.base + aligned_offset, trap |-> FALSE]

\* push_size: (used + (alignment - 1)) & ~(alignment - 1) clears the low
\* bits of a power-of-two alignment; ASSERT writes through a null pointer
\* when the sum, as computed in usize, is above size.
push_size(a, size_bytes, alignment) ==
    LET t == (a.used + (alignment - 1)) % UsizeMod
        aligned_offset == t - (t % alignment)
        end == (aligned_offset + size_bytes) % UsizeMod
    IN IF end <= a.size
       THEN [arena |-> [a EXCEPT !.used = end],
             result |-> a.base + aligned_offset, trap |-> FALSE]
       ELSE [arena |-> a, result |-> 0, trap |-> TRUE]

push_struct(a, T) == push_size(a, sizeof(T), alignof(T))

push_array(a, T, count) ==
    push_size(a, (sizeof(T) * count) % UsizeMod, alignof(T))

clear(a) == [a EXCEPT !.used = 0]

remaining(a) == a.size - a.used

\* Variant: the checkpoint records offset 0.
TemporaryMemory_make_zero(a) == [saved_used |-> 0]

TemporaryMemory_make(a) == [saved_used |-> a.used]

\* Variant: end() leaves used alone when the checkpoint lies above it.
TemporaryMemory_end_checked(temp, a) ==
    IF temp.saved_used <= a.used THEN [a EXCEPT !.used = temp.saved_used]
    ELSE a

TemporaryMemory_end(temp, a) == [a EXCEPT !.used = temp.saved_used]

NoOp == [op |-> "none", size_bytes |-> 0, requested |-> 0, alignment |-> 1,
         result |-> 0, used_before |-> 0, trap |-> FALSE, index |-> 0]

\* The arena variables while another part of the program is looked at.
ArenaIdle ==
    /\ arena = MemoryArena_make(Page, ArenaSize)
    /\ temps = <<>>
    /\ begin_used = <<>>
    /\ trapped = FALSE
    /\ last = NoOp
    /\ pushed = <<>>
    /\ fresh = TRUE
    /\ npush = 0

\* ------------------------------------- game_interface.h: render commands
\* enum RenderCommandType
RenderCommand_Clear == 0
RenderCommand_Rect == 1
RenderCommand_Sprite == 2
RenderCommand_AtlasSprite == 3
\* a header value outside the enum
UnknownTag == 4

\* The fields of each record, in declaration order; every field is 4 bytes.
Layout(T) ==
    CASE T = "RenderCommandHeader" -> <<"type">>
      [] T = "RenderCommandClear" -> <<"type", "color">>
      [] T = "RenderCommandRect" -> <<"type", "x", "y", "w", "h", "color">>
      [] T = "RenderCommandSprite" ->
             <<"type", "x", "y", "w", "h", "texture_id", "tint">>
      [] T = "RenderCommandAtlasSprite" ->
             <<"type", "x", "y", "w", "h", "u0", "v0", "u1", "v1",
               "texture_id", "tint">>

offsetof(T, f) == 4 * ((CHOOSE k \in DOMAIN Layout(T) : Layout(T)[k] = f) - 1)

\* The record type a reader takes a header value for.
TypeOfTag(type) ==
    CASE type = RenderCommand_Clear -> "RenderCommandClear"
      [] type = RenderCommand_Rect -> "RenderCommandRect"
      [] type = RenderCommand_Sprite -> "RenderCommandSprite"
      [] type = RenderCommand_AtlasSprite -> "RenderCommandAtlasSprite"
      [] OTHER -> "RenderCommandHeader"

\* What the simulation module stores through the pointer push_struct gave
\* it: a record of type T at position x, with colour or texture c.
GameCommand(T, x, c) ==
    CASE T = "RenderCommandHeader" -> [type |-> UnknownTag]
      [] T = "RenderCommandClear" ->
             [type |-> RenderCommand_Clear, color |-> c]
      [] T = "RenderCommandRect" ->
             [type |-> RenderCommand_Rect, x |-> x, y |-> 5, w |-> 6,
              h |-> 7, color |-> 8]
      [] T = "RenderCommandSprite" ->
             [type |-> RenderCommand_Sprite, x |-> x, y |-> 5, w |-> 6,
              h |-> 7, texture_id |-> c, tint |-> 9]
      [] T = "RenderCommandAtlasSprite" ->
             [type |-> RenderCommand_AtlasSprite, x |-> x, y |-> 5,
              w |-> 6, h |-> 7, u0 |-> 10, v0 |-> 11, u1 |-> 12, v1 |-> 13,
              texture_id |-> c, tint |-> 9]

\* The block after the fields of cmd were stored at byte offset offset.
Store(mem, offset, T, cmd) ==
    [i \in 1..((offset + sizeof(T)) \div 4) |->
        IF i > offset \div 4 THEN cmd[Layout(T)[i - offset \div 4]]
        ELSE IF i \in DOMAIN mem THEN mem[i] ELSE 0]

LoadWord(mem, offset) ==
    IF (offset \div 4) + 1 \in DOMAIN mem THEN mem[(offset \div 4) + 1] ELSE 0

\* The fields of a record of type T read at byte offset cursor.
Load(mem, cursor, T) ==
    [f \in {Layout(T)[k] : k \in DOMAIN Layout(T)} |->
        LoadWord(mem, cursor + offsetof(T, f))]

\* ---------------------------------------------- execute_render_commands
\* "main" is the reader of main.cpp, linux_main.cpp and main.win32.cpp (the
\* same text three times), "macos" the one of renderer.cpp.
Readers == {"main", "macos"}

\* the case labels of the switch
Supports(rd, type) ==
    \/ type \in {RenderCommand_Clear, RenderCommand_Rect, RenderCommand_Sprite}
    \/ rd = "macos" /\ type = RenderCommand_AtlasSprite

\* Variant: the Sprite case advances by sizeof(RenderCommandRect).
execute_render_commands_step_short(rd, mem, cursor) ==
    LET type == LoadWord(mem, cursor)
        T == TypeOfTag(type)
    IN IF Supports(rd, type)
       THEN [known |-> TRUE, T |-> T, cmd |-> Load(mem, cursor, T),
             at |-> cursor + (IF T = "RenderCommandSprite"
                              THEN sizeof("RenderCommandRect")
                              ELSE sizeof(T))]
       ELSE [known |-> FALSE, T |-> T, cmd |-> [type |-> type],
             at |-> cursor]

\* One iteration of the while loop: the switch on header->type.  A value
\* with no case label runs no statement at all; the cursor stays.
execute_render_commands_step(rd, mem, cursor) ==
    LET type == LoadWord(mem, cursor)
        T == TypeOfTag(type)
    IN IF Supports(rd, type)
       THEN [known |-> TRUE, T |-> T, cmd |-> Load(mem, cursor, T),
             at |-> cursor + sizeof(T)]
       ELSE [known |-> FALSE, T |-> T, cmd |-> [type |-> type],
             at |-> cursor]

\* ------------------------------------------------------- batching renderer
MAX_VERTICES == MAX_QUADS * 4

NoRenderer ==
    [vertex_count |-> 0, current_texture |-> 0, clear_color |-> 0,
     global_vertex_buffer |-> <<>>, bound |-> 0, cleared |-> 0,
     drawn |-> <<>>, draw_calls |-> 0]

\* glClear with the stored colour; vertex_count and current_texture are
\* reset and textures[0] is bound.  drawn and draw_calls log the frame's
\* glDrawElements calls.
renderer_begin_frame(r) ==
    [r EXCEPT !.vertex_count = 0, !.current_texture = 0,
              !.global_vertex_buffer = <<>>, !.cleared = r.clear_color,
              !.bound = 0, !.drawn = <<>>, !.draw_calls = 0]

\* glDrawElements draws the first vertex_count / 4 quads of the buffer with
\* the texture that is bound.
renderer_flush(r) ==
    IF r.vertex_count = 0 THEN r
    ELSE [r EXCEPT
            !.drawn = @ \o [i \in 1..(r.vertex_count \div 4) |->
                               [quad |-> r.global_vertex_buffer[i],
                                texture |-> r.bound]],
            !.draw_calls = @ + 1,
            !.vertex_count = 0,
            !.global_vertex_buffer = <<>>]

renderer_end_frame(r) == renderer_flush(r)

renderer_set_clear_color(r, color) == [r EXCEPT !.clear_color = color]

\* The four vertices of one quad.
Quad(x, y, w, h, u0, v0, u1, v1, color) ==
    [x |-> x, y |-> y, w |-> w, h |-> h, u0 |-> u0, v0 |-> v0, u1 |-> u1,
     v1 |-> v1, color |-> color]

\* Variant: a full buffer is not flushed before the next quad is stored.
PushQuad_no_full_flush(r, texture_id, quad) ==
    LET r2 == IF r.current_texture # texture_id
              THEN [renderer_flush(r) EXCEPT !.current_texture = texture_id,
                                             !.bound = texture_id]
              ELSE r
    IN [r2 EXCEPT !.global_vertex_buffer =
                      SubSeq(@, 1, r2.vertex_count \div 4) \o <<quad>>,
                  !.vertex_count = @ + 4]

\* The body the three draw calls share: flush when the buffer is full,
\* flush and rebind when the texture differs, then store the quad at
\* vertex_count.
PushQuad(r, texture_id, quad) ==
    LET r1 == IF r.vertex_count + 4 > MAX_VERTICES
              THEN renderer_flush(r) ELSE r
        r2 == IF r1.current_texture # texture_id
              THEN [renderer_flush(r1) EXCEPT !.current_texture = texture_id,
                                              !.bound = texture_id]
              ELSE r1
    IN [r2 EXCEPT !.global_vertex_buffer =
                      SubSeq(@, 1, r2.vertex_count \div 4) \o <<quad>>,
                  !.vertex_count = @ + 4]

renderer_draw_rect(r, x, y, w, h, color) ==
    PushQuad(r, 0, Quad(x, y, w, h, 0, 0, 1, 1, color))

\* Variant: a texture change rebinds without flushing first.
renderer_draw_sprite_no_flush(r, x, y, w, h, texture_id, tint) ==
    LET r1 == IF r.vertex_count + 4 > MAX_VERTICES
              THEN renderer_flush(r) ELSE r
        r2 == [r1 EXCEPT !.current_texture = texture_id,
                         !.bound = texture_id]
    IN [r2 EXCEPT !.global_vertex_buffer =
                      SubSeq(@, 1, r2.vertex_count \div 4)
                          \o <<Quad(x, y, w, h, 0, 0, 1, 1, tint)>>,
                  !.vertex_count = @ + 4]

renderer_draw_sprite(r, x, y, w, h, texture_id, tint) ==
    PushQuad(r, texture_id, Quad(x, y, w, h, 0, 0, 1, 1, tint))

renderer_draw_atlas_sprite(r, x, y, w, h, u0, v0, u1, v1, texture_id, tint) ==
    PushQuad(r, texture_id, Quad(x, y, w, h, u0, v0, u1, v1, tint))

\* The call a case of the switch makes for the record it read.
Dispatch(r, T, cmd) ==
    CASE T = "RenderCommandClear" -> renderer_set_clear_color(r, cmd.color)
      [] T = "RenderCommandRect" ->
             renderer_draw_rect(r, cmd.x, cmd.y, cmd.w, cmd.h, cmd.color)
      [] T = "RenderCommandSprite" ->
             renderer_draw_sprite(r, cmd.x, cmd.y, cmd.w, cmd.h,
                                  cmd.texture_id, cmd.tint)
      [] T = "RenderCommandAtlasSprite" ->
             renderer_draw_atlas_sprite(r, cmd.x, cmd.y, cmd.w, cmd.h,
                                        cmd.u0, cmd.v0, cmd.u1, cmd.v1,
                                        cmd.texture_id, cmd.tint)

\* The render variables while another part of the program is looked at.
RenderIdle ==
    /\ reader = "main"
    /\ cmd_memory = <<>>
    /\ written = <<>>
    /\ rpc = "write"
    /\ at = 0
    /\ dispatched = <<>>
    /\ iterations = 0
    /\ renderer = NoRenderer
    /\ immediate = <<>>

\* ------------------------------------------ game_interface.h: GameInput
Keys == {"move_up", "move_down", "move_left", "move_right", "action"}
MouseIndices == 0..2
MouseButtons == {"mouse_buttons_0", "mouse_buttons_1", "mouse_buttons_2"}
Buttons == Keys \cup MouseButtons

MouseIndex(b) ==
    CASE b = "mouse_buttons_0" -> 0
      [] b = "mouse_buttons_1" -> 1
      [] b = "mouse_buttons_2" -> 2

\* GameButtonState and GameInput as `= {}` leaves them.
ZeroButton == [ended_down |-> FALSE, half_transition_count |-> 0]
ZeroGameInput ==
    [dt_for_frame |-> 0,
     move_up |-> ZeroButton, move_down |-> ZeroButton,
     move_left |-> ZeroButton, move_right |-> ZeroButton,
     action |-> ZeroButton,
     mouse_x |-> 0, mouse_y |-> 0,
     mouse_buttons |-> [i \in MouseIndices |-> ZeroButton]]

\* input->b for a button member b.
ButtonOf(input, b) ==
    CASE b = "move_up" -> input.move_up
      [] b = "move_down" -> input.move_down
      [] b = "move_left" -> input.move_left
      [] b = "move_right" -> input.move_right
      [] b = "action" -> input.action
      [] OTHER -> input.mouse_buttons[MouseIndex(b)]

\* input with member b replaced by state.
WithButton(input, b, state) ==
    CASE b = "move_up" -> [input EXCEPT !.move_up = state]
      [] b = "move_down" -> [input EXCEPT !.move_down = state]
      [] b = "move_left" -> [input EXCEPT !.move_left = state]
      [] b = "move_right" -> [input EXCEPT !.move_right = state]
      [] b = "action" -> [input EXCEPT !.action = state]
      [] OTHER -> [input EXCEPT !.mouse_buttons[MouseIndex(b)] = state]

\* Variant: every event counts as a transition.
process_button_event_every(state, is_down) ==
    [ended_down |-> is_down,
     half_transition_count |-> state.half_transition_count + 1]

\* half_transition_count is an i32; the events of one frame are far from
\* its range.
\* Variant: only a press is counted.
process_button_event_press_only(state, is_down) ==
    IF state.ended_down # is_down
    THEN [ended_down |-> is_down,
          half_transition_count |->
              state.half_transition_count + (IF is_down THEN 1 ELSE 0)]
    ELSE state

process_button_event(state, is_down) ==
    IF state.ended_down # is_down
    THEN [ended_down |-> is_down,
          half_transition_count |-> state.half_transition_count + 1]
    ELSE state

\* Variant: the mouse buttons are left out.
reset_input_half_transitions_keys(input) ==
    [input EXCEPT !.move_up.half_transition_count = 0,
                  !.move_down.half_transition_count = 0,
                  !.move_left.half_transition_count = 0,
                  !.move_right.half_transition_count = 0,
                  !.action.half_transition_count = 0]

reset_input_half_transitions(input) ==
    [input EXCEPT !.move_up.half_transition_count = 0,
                  !.move_down.half_transition_count = 0,
                  !.move_left.half_transition_count = 0,
                  !.move_right.half_transition_count = 0,
                  !.action.half_transition_count = 0,
                  !.mouse_buttons =
                      [i \in MouseIndices |->
                          [@[i] EXCEPT !.half_transition_count = 0]]]

\* One window event: a key or mouse button going down or up, or the
\* pointer moving.
ButtonEvent(b, is_down) ==
    [type |-> "button", button |-> b, is_down |-> is_down, x |-> 0, y |-> 0]
MotionEvent(x, y) ==
    [type |-> "motion", button |-> "none", is_down |-> FALSE,
     x |-> x, y |-> y]

\* What a host does with one event: event() of main.cpp, the switch of
\* process_x11_events, window_proc, the GameView methods.
HandleEvent(input, ev) ==
    IF ev.type = "button"
    THEN WithButton(input, ev.button,
                    process_button_event(ButtonOf(input, ev.button),
                                         ev.is_down))
    ELSE [input EXCEPT !.mouse_x = ev.x, !.mouse_y = ev.y]

NotCalled == [called |-> FALSE, input |-> ZeroGameInput]

\* The input variables while another part of the program is looked at.
InputIdle ==
    /\ g_game_input = ZeroGameInput
    /\ events = <<>>
    /\ seen = NotCalled

\* No load in progress, no build running.
RaceIdle ==
    /\ result = ZeroDLL
    /\ build = "idle"
    /\ copied_from = NoFile

\* ------------------------------------------------------------- host: main
HostInit ==
    /\ lock_tmp \in BOOLEAN
    /\ libgame \in SourceFiles
    /\ temp_files = <<>>
    /\ loaded_modules = <<>>
    /\ g_dll_load_counter = 0
    /\ g_game_dll = ZeroDLL
    /\ g_game_code = ZeroGameCode
    /\ g_game_memory = [is_initialized |-> FALSE,
                        permanent_storage_size |-> PermanentSize,
                        permanent_storage |-> 0,
                        transient_storage_size |-> TransientSize,
                        transient_storage |-> PermanentSize,
                        state |-> ZeroGameState]
    /\ g_render_commands = <<>>
    /\ g_running = TRUE
    /\ pc = "load"
    /\ trace = <<>>
    /\ prev_suffix = -1
    /\ polled_time = -1
    /\ issued = {}
    /\ init_runs = 0
    /\ init_by = NullHandle
    /\ replayed = <<>>

\* The host-selection variables while the Linux host of Spec runs.
LoopIdle ==
    /\ platform = "linux"
    /\ module = "none"
    /\ phases = <<>>
    /\ wrote = <<>>
    /\ sim_entry = -1

Init == HostInit /\ ArenaIdle /\ RenderIdle /\ LoopIdle /\ InputIdle /\ RaceIdle

\* Variant: the flag is not looked at.
LoopTest_ignore == "reload"

\* while (g_running)
LoopTest == IF g_running THEN "reload" ELSE "cleanup"

\* main(): "Load game code"
HostLoad ==
    /\ pc = "load"
    /\ UNCHANGED auxvars
    /\ LET l == platform_load_game_code(lock_tmp, libgame, temp_files,
                                        loaded_modules, g_dll_load_counter)
           g == platform_get_game_code(l.dll, l.modules)
       IN /\ g_game_dll' = l.dll
          /\ g_game_code' = g.code
          /\ temp_files' = l.files
          /\ loaded_modules' = l.modules
          /\ g_dll_load_counter' = l.counter
          /\ prev_suffix' = IF l.dll.temp_dll_path # EmptyPath
                            THEN l.dll.temp_dll_path ELSE prev_suffix
          /\ issued' = issued \cup ({l.dll.temp_dll_path} \ {EmptyPath})
          /\ trace' = <<"load">> \o l.ev \o <<"get_game_code">> \o g.ev
    /\ pc' = LoopTest
    /\ UNCHANGED <<lock_tmp, libgame, g_game_memory, g_render_commands,
                   g_running, polled_time, init_runs, init_by, replayed>>

\* loop body: "Hot-reload game code"
HostReload ==
    /\ pc = "reload"
    /\ UNCHANGED auxvars
    /\ LET r == platform_reload_game_code_if_changed(
                    g_game_dll, g_game_code, lock_tmp, libgame, temp_files,
                    loaded_modules, g_dll_load_counter)
       IN /\ r.counter <= MaxLoads
          /\ g_game_dll' = r.dll
          /\ g_game_code' = r.code
          /\ temp_files' = r.files
          /\ loaded_modules' = r.modules
          /\ g_dll_load_counter' = r.counter
          /\ prev_suffix' = IF Has(r.ev, "load")
                               /\ r.dll.temp_dll_path # EmptyPath
                            THEN r.dll.temp_dll_path ELSE prev_suffix
          /\ issued' = IF Has(r.ev, "load")
                        THEN issued \cup ({r.dll.temp_dll_path} \ {EmptyPath})
                        ELSE issued
          /\ polled_time' = platform_get_file_write_time(libgame)
          /\ trace' = r.ev
    /\ pc' = "events"
    /\ UNCHANGED <<lock_tmp, libgame, g_game_memory, g_render_commands,
                   g_running, init_runs, init_by, replayed>>

\* loop body: "Process input"; a close request clears g_running.
HostEvents ==
    /\ pc = "events"
    /\ UNCHANGED auxvars
    /\ \E quit \in BOOLEAN : g_running' = (g_running /\ ~quit)
    /\ trace' = <<"events">>
    /\ pc' = "sim"
    /\ UNCHANGED <<fsvars, loadervars, g_game_memory, g_render_commands,
                   init_runs, init_by, replayed>>

\* Variant: the entry pointer is called without testing is_valid.
HostSimulate_unguarded ==
    /\ pc = "sim"
    /\ UNCHANGED auxvars
    /\ IF dlsym(loaded_modules, g_game_code.update_and_render,
                "game_update_and_render")
       THEN LET r == game_update_and_render(g_game_memory)
            IN /\ g_game_memory' = r.memory
               /\ g_render_commands' = r.cmds
               /\ init_runs' = init_runs + (IF r.init THEN 1 ELSE 0)
               /\ init_by' = IF r.init THEN g_game_code.update_and_render
                             ELSE init_by
               /\ trace' = <<"update_and_render">>
               /\ pc' = "replay"
       ELSE /\ pc' \in {"crashed", "replay"}
            /\ g_render_commands' = <<>>
            /\ trace' = <<"update_and_render">>
            /\ UNCHANGED <<g_game_memory, init_runs, init_by>>
    /\ UNCHANGED <<fsvars, loadervars, g_running, replayed>>

\* loop body: "Reset render commands", "Update and render game"
HostSimulate ==
    /\ pc = "sim"
    /\ UNCHANGED auxvars
    /\ IF g_game_code.is_valid
       THEN IF dlsym(loaded_modules, g_game_code.update_and_render,
                     "game_update_and_render")
            THEN LET r == game_update_and_render(g_game_memory)
                 IN /\ g_game_memory' = r.memory
                    /\ g_render_commands' = r.cmds
                    /\ init_runs' = init_runs + (IF r.init THEN 1 ELSE 0)
                    /\ init_by' = IF r.init
                                  THEN g_game_code.update_and_render
                                  ELSE init_by
                    /\ trace' = <<"update_and_render">>
                    /\ pc' = "replay"
            ELSE \* a call through a null or stale pointer
                 /\ pc' \in {"crashed", "replay"}
                 /\ g_render_commands' = <<>>
                 /\ trace' = <<"update_and_render">>
                 /\ UNCHANGED <<g_game_memory, init_runs, init_by>>
       ELSE /\ g_render_commands' = <<>>
            /\ trace' = <<>>
            /\ pc' = "replay"
            /\ UNCHANGED <<g_game_memory, init_runs, init_by>>
    /\ UNCHANGED <<fsvars, loadervars, g_running, replayed>>

\* loop body: "Execute render commands"
HostReplay ==
    /\ pc = "replay"
    /\ UNCHANGED auxvars
    /\ replayed' = g_render_commands
    /\ trace' = <<"replay">>
    /\ pc' = "reset"
    /\ UNCHANGED <<fsvars, loadervars, g_game_memory, g_render_commands,
                   g_running, init_runs, init_by>>

\* loop body: "Reset input transitions", then the loop test
HostResetInput ==
    /\ pc = "reset"
    /\ UNCHANGED auxvars
    /\ trace' = <<"reset_input">>
    /\ pc' = LoopTest
    /\ UNCHANGED <<fsvars, loadervars, g_game_memory, g_render_commands,
                   g_running, init_runs, init_by, replayed>>

\* after the loop: platform_unload_game_code(&g_game_dll)
HostCleanup ==
    /\ pc = "cleanup"
    /\ UNCHANGED auxvars
    /\ LET u == platform_unload_game_code(g_game_dll, temp_files,
                                          loaded_modules)
       IN /\ g_game_dll' = u.dll
          /\ temp_files' = u.files
          /\ loaded_modules' = u.modules
          /\ trace' = <<"unload">> \o u.ev
    /\ pc' = "exited"
    /\ UNCHANGED <<lock_tmp, libgame, g_dll_load_counter, g_game_code,
                   prev_suffix, polled_time, issued, g_game_memory, g_render_commands, g_running,
                   init_runs, init_by, replayed>>

\* ------------------------------------------------- external build process
HostAlive == pc \notin {"exited", "crashed"}

hostvars == <<temp_files, loadervars, g_game_memory, g_render_commands,
              g_running, pc, trace, init_runs, init_by, replayed>>

CreateLock ==
    /\ HostAlive /\ ~lock_tmp
    /\ UNCHANGED auxvars
    /\ lock_tmp' = TRUE
    /\ UNCHANGED <<libgame, hostvars>>

RemoveLock ==
    /\ HostAlive /\ lock_tmp
    /\ UNCHANGED auxvars
    /\ lock_tmp' = FALSE
    /\ UNCHANGED <<libgame, hostvars>>

\* The linker (or anything else) replaces the build output.  The write time
\* has the granularity of st_mtime, so the new file can carry the old time.
WriteSource ==
    /\ HostAlive
    /\ UNCHANGED auxvars
    /\ \E f \in SourceFiles : f.exists /\ f # libgame /\ libgame' = f
    /\ UNCHANGED <<lock_tmp, hostvars>>

DeleteSource ==
    /\ HostAlive /\ libgame.exists
    /\ UNCHANGED auxvars
    /\ libgame' = NoFile
    /\ UNCHANGED <<lock_tmp, hostvars>>

Next ==
    \/ HostLoad
    \/ HostReload
    \/ HostEvents
    \/ HostSimulate
    \/ HostReplay
    \/ HostResetInput
    \/ HostCleanup
    \/ CreateLock
    \/ RemoveLock
    \/ WriteSource
    \/ DeleteSource

Spec == Init /\ [][Next]_vars

TypeOK ==
    /\ lock_tmp \in BOOLEAN
    /\ libgame \in SourceFiles
    /\ g_dll_load_counter \in 0..MaxLoads
    /\ pc \in {"load", "reload", "events", "sim", "replay", "reset",
               "cleanup", "exited", "crashed"}

\* ======================================================= arena operations
\* The host and the build process while the arena is looked at.
HostIdle ==
    /\ HostInit /\ ~lock_tmp /\ libgame = NoFile
    /\ LoopIdle /\ InputIdle /\ RaceIdle

\* Inputs of the push operations.  HugeSize is a request near the top of
\* the usize range; HugeCount makes sizeof(u32) * count pass that top.
HugeSize == UsizeMod - 600
HugeCount == UsizeMod \div 4
PushSizes == {1, 600, HugeSize}
\* byte, word, the default, and an over-aligned type (alignas(32))
Alignments == {1, 4, MaxAlign, 2 * MaxAlign}
StructTypes == {"RenderCommandClear", "RenderCommandRect"}
ArrayTypes == {"u8", "u32"}
Counts == {2, HugeCount}

\* The arenas the program makes: the render command arena on a block of
\* its own, and the permanent arena behind the GameState at the start of
\* permanent_storage.
InitArena ==
    /\ HostIdle
    /\ RenderIdle
    /\ arena \in {MemoryArena_make(Page, ArenaSize),
                  MemoryArena_make(Page + sizeof("GameState"),
                                   ArenaSize - sizeof("GameState"))}
    /\ temps = <<>>
    /\ begin_used = <<>>
    /\ trapped = FALSE
    /\ last = NoOp
    /\ pushed = <<>>
    /\ fresh = TRUE
    /\ npush = 0

\* The caller's side of one push: r is what the push returned, requested
\* the number of bytes the caller wanted, size_bytes what reached push_size.
PushResult(r, requested, size_bytes, alignment) ==
    /\ ~trapped
    /\ npush < MaxPushes
    /\ npush' = npush + 1
    /\ arena' = r.arena
    /\ trapped' = r.trap
    /\ last' = [op |-> "push", size_bytes |-> size_bytes,
                requested |-> requested, alignment |-> alignment,
                result |-> r.result, used_before |-> arena.used,
                trap |-> r.trap, index |-> 0]
    /\ pushed' = IF r.trap THEN pushed
                 ELSE Append(pushed, <<size_bytes, alignment, r.result,
                                       requested>>)
    /\ UNCHANGED <<temps, begin_used, fresh>>

PushSize ==
    /\ \E size_bytes \in PushSizes, alignment \in Alignments :
           PushResult(push_size(arena, size_bytes, alignment),
                      size_bytes, size_bytes, alignment)
    /\ UNCHANGED <<vars_host, rendervars, loopvars, inputvars, racevars>>

PushStruct ==
    /\ \E T \in StructTypes :
           PushResult(push_struct(arena, T), sizeof(T), sizeof(T), alignof(T))
    /\ UNCHANGED <<vars_host, rendervars, loopvars, inputvars, racevars>>

PushArray ==
    /\ \E T \in ArrayTypes, count \in Counts :
           PushResult(push_array(arena, T, count), sizeof(T) * count,
                      (sizeof(T) * count) % UsizeMod, alignof(T))
    /\ UNCHANGED <<vars_host, rendervars, loopvars, inputvars, racevars>>

ArenaClear ==
    /\ ~trapped
    /\ arena' = clear(arena)
    /\ last' = [NoOp EXCEPT !.op = "clear", !.used_before = arena.used]
    /\ pushed' = <<>>
    /\ fresh' = FALSE
    /\ UNCHANGED <<temps, begin_used, trapped, npush>>
    /\ UNCHANGED <<vars_host, rendervars, loopvars, inputvars, racevars>>

\* The host's per-frame reset writes the field directly: arena.used = 0.
ArenaHostReset ==
    /\ ~trapped
    /\ arena' = [arena EXCEPT !.used = 0]
    /\ last' = [NoOp EXCEPT !.op = "reset", !.used_before = arena.used]
    /\ pushed' = <<>>
    /\ fresh' = FALSE
    /\ UNCHANGED <<temps, begin_used, trapped, npush>>
    /\ UNCHANGED <<vars_host, rendervars, loopvars, inputvars, racevars>>

TempBegin ==
    /\ ~trapped
    /\ Len(temps) < MaxTemps
    /\ temps' = Append(temps, TemporaryMemory_make(arena))
    /\ begin_used' = Append(begin_used, arena.used)
    /\ last' = [NoOp EXCEPT !.op = "begin", !.used_before = arena.used,
                            !.index = Len(temps) + 1]
    /\ UNCHANGED <<arena, trapped, pushed, fresh, npush>>
    /\ UNCHANGED <<vars_host, rendervars, loopvars, inputvars, racevars>>

Without(s, i) == [k \in 1..(Len(s) - 1) |-> IF k < i THEN s[k] ELSE s[k + 1]]

\* end() of any live checkpoint; nothing in the code orders the calls.
TempEnd ==
    /\ ~trapped
    /\ \E i \in DOMAIN temps :
           /\ arena' = TemporaryMemory_end(temps[i], arena)
           /\ temps' = Without(temps, i)
           /\ begin_used' = Without(begin_used, i)
           /\ last' = [NoOp EXCEPT !.op = "end", !.used_before = arena.used,
                                   !.index = i]
    /\ pushed' = <<>>
    /\ fresh' = FALSE
    /\ UNCHANGED <<trapped, npush>>
    /\ UNCHANGED <<vars_host, rendervars, loopvars, inputvars, racevars>>

NextArena ==
    \/ PushSize
    \/ PushStruct
    \/ PushArray
    \/ ArenaClear
    \/ ArenaHostReset
    \/ TempBegin
    \/ TempEnd

SpecArena == InitArena /\ [][NextArena]_vars

\* ======================================================= render protocol
WriteTypes == {"RenderCommandClear", "RenderCommandRect", "RenderCommandSprite",
               "RenderCommandAtlasSprite", "RenderCommandHeader"}
\* colours of a Clear, textures of a Sprite or AtlasSprite
Values == {0, 1}
Varies(T) == T \in {"RenderCommandClear", "RenderCommandSprite",
                    "RenderCommandAtlasSprite"}

InitRender ==
    /\ HostIdle
    /\ ArenaIdle
    /\ reader \in Readers
    /\ cmd_memory = <<>>
    /\ written = <<>>
    /\ rpc = "write"
    /\ at = 0
    /\ dispatched = <<>>
    /\ iterations = 0
    /\ renderer = NoRenderer
    /\ immediate = <<>>

restvars == <<vars_host, temps, begin_used, trapped, last, pushed, fresh,
              npush, loopvars, inputvars, racevars>>

\* The simulation module appends one command: push_struct<T>() on the
\* render arena, then stores through the returned pointer.
GameWrite ==
    /\ rpc = "write"
    /\ Len(written) < MaxCmds
    /\ \E T \in WriteTypes, c \in Values :
           /\ Varies(T) \/ c = 0
           /\ LET p == push_struct(arena, T)
                  cmd == GameCommand(T, Len(written), c)
              IN /\ ~p.trap
                 /\ arena' = p.arena
                 /\ cmd_memory' = Store(cmd_memory, p.result - arena.base,
                                        T, cmd)
                 /\ written' = Append(written, [T |-> T, cmd |-> cmd])
    /\ UNCHANGED <<reader, rpc, at, dispatched, iterations, renderer,
                   immediate, restvars>>

\* renderer_begin_frame, then execute_render_commands up to its loop:
\* at = base, end = base + used.
BeginReplay ==
    /\ rpc = "write"
    /\ renderer' = renderer_begin_frame(renderer)
    /\ at' = 0
    /\ dispatched' = <<>>
    /\ immediate' = <<>>
    /\ iterations' = 0
    /\ rpc' = "replay"
    /\ UNCHANGED <<reader, arena, cmd_memory, written, restvars>>

\* The quad a draw command stands for and the texture it names.
ImmediateDraw(T, cmd) ==
    CASE T = "RenderCommandRect" ->
             [quad |-> Quad(cmd.x, cmd.y, cmd.w, cmd.h, 0, 0, 1, 1, cmd.color),
              texture |-> 0]
      [] T = "RenderCommandSprite" ->
             [quad |-> Quad(cmd.x, cmd.y, cmd.w, cmd.h, 0, 0, 1, 1, cmd.tint),
              texture |-> cmd.texture_id]
      [] T = "RenderCommandAtlasSprite" ->
             [quad |-> Quad(cmd.x, cmd.y, cmd.w, cmd.h, cmd.u0, cmd.v0,
                            cmd.u1, cmd.v1, cmd.tint),
              texture |-> cmd.texture_id]

\* One iteration of while (at < end).
ReplayStep ==
    /\ rpc = "replay"
    /\ at < arena.used
    /\ LET st == execute_render_commands_step(reader, cmd_memory, at)
       IN IF st.known
          THEN /\ at' = st.at
               /\ dispatched' = Append(dispatched, [T |-> st.T, cmd |-> st.cmd])
               /\ renderer' = Dispatch(renderer, st.T, st.cmd)
               /\ immediate' = IF st.T = "RenderCommandClear" THEN immediate
                               ELSE Append(immediate, ImmediateDraw(st.T, st.cmd))
               /\ iterations' = 0
          ELSE /\ iterations < MaxSpin
               /\ iterations' = iterations + 1
               /\ UNCHANGED <<at, dispatched, renderer, immediate>>
    /\ UNCHANGED <<reader, arena, cmd_memory, written, rpc, restvars>>

\* The loop test fails; execute_render_commands returns and the host calls
\* renderer_end_frame.
EndReplay ==
    /\ rpc = "replay"
    /\ ~(at < arena.used)
    /\ renderer' = renderer_end_frame(renderer)
    /\ rpc' = "done"
    /\ UNCHANGED <<reader, arena, cmd_memory, written, at, dispatched,
                   iterations, immediate, restvars>>

\* The next iteration of the host: arena.used = 0.
NextFrame ==
    /\ rpc = "done"
    /\ arena' = [arena EXCEPT !.used = 0]
    /\ cmd_memory' = <<>>
    /\ written' = <<>>
    /\ dispatched' = <<>>
    /\ immediate' = <<>>
    /\ at' = 0
    /\ renderer' = [renderer EXCEPT !.drawn = <<>>, !.draw_calls = 0]
    /\ rpc' = "write"
    /\ UNCHANGED <<reader, iterations, restvars>>

NextRender ==
    \/ GameWrite
    \/ BeginReplay
    \/ ReplayStep
    \/ EndReplay
    \/ NextFrame

SpecRender == InitRender /\ [][NextRender]_vars

\* ============================================================ host loops
Platforms == {"linux", "win32", "macos", "sokol"}
\* the hosts that poll the window system themselves
PollingPlatforms == {"linux", "win32", "macos"}
\* The module built from game.cpp and the earlier one that draws a
\* rectangle.
Modules == {"game.cpp", "rect"}

ReaderOf(p) == IF p = "macos" THEN "macos" ELSE "main"

TagOfName(name) ==
    CASE name = "Clear" -> RenderCommand_Clear
      [] name = "Rect" -> RenderCommand_Rect
      [] name = "Sprite" -> RenderCommand_Sprite
      [] name = "AtlasSprite" -> RenderCommand_AtlasSprite

\* The whole reader loop on a buffer given command by command: what it
\* dispatched, and whether it returned (it does not once it stands on a
\* tag without a case).
execute_render_commands(rd, cmds) ==
    LET stops == {i \in DOMAIN cmds : ~Supports(rd, TagOfName(cmds[i]))}
        first == CHOOSE i \in stops : \A j \in stops : i <= j
    IN IF stops = {}
       THEN [dispatched |-> cmds, returns |-> TRUE]
       ELSE [dispatched |-> SubSeq(cmds, 1, first - 1), returns |-> FALSE]

\* The earlier simulation module: a Clear and the player's Rect per call.
rect_game_update_and_render(memory) ==
    [memory |-> [memory EXCEPT !.is_initialized = TRUE],
     cmds |-> <<"Clear", "Rect">>]

ModuleCall(m, memory) ==
    IF m = "rect" THEN rect_game_update_and_render(memory)
    ELSE LET r == game_update_and_render(memory)
         IN [memory |-> r.memory, cmds |-> r.cmds]

\* What the call table is after a load or a poll that left module m.
CodeFor(m) ==
    IF m = "none" THEN ZeroGameCode
    ELSE [ZeroGameCode EXCEPT !.is_valid = TRUE, !.update_and_render = 1,
                              !.version = GAME_CODE_VERSION]

\* Variant: every host polls events first.
FirstStep_events(p) == "events"

\* The first statement of the loop body.
FirstStep(p) == IF p = "macos" THEN "events" ELSE "reload"

AfterReload(p) == IF p \in {"linux", "win32"} THEN "events" ELSE "clear"

AfterEvents(p) == IF p = "macos" THEN "reload" ELSE "clear"

\* Variant: the buffer is not reset.
ResetRenderCommands_keep(cmds) == cmds

\* g_render_commands.arena.used = 0
ResetRenderCommands(cmds) == <<>>

loopfixed == <<lock_tmp, libgame, temp_files, loaded_modules,
               g_dll_load_counter, g_game_dll, trace, prev_suffix, polled_time,
               issued, init_runs, init_by, arenavars, rendervars, platform,
               inputvars, racevars>>

InitLoop ==
    /\ ArenaIdle
    /\ RenderIdle
    /\ InputIdle
    /\ RaceIdle
    /\ lock_tmp = FALSE
    /\ libgame = NoFile
    /\ temp_files = <<>>
    /\ loaded_modules = <<>>
    /\ g_dll_load_counter = 0
    /\ g_game_dll = ZeroDLL
    /\ trace = <<>>
    /\ prev_suffix = -1
    /\ polled_time = -1
    /\ issued = {}
    /\ init_runs = 0
    /\ init_by = NullHandle
    /\ g_game_memory = [is_initialized |-> FALSE,
                        permanent_storage_size |-> PermanentSize,
                        permanent_storage |-> 0,
                        transient_storage_size |-> TransientSize,
                        transient_storage |-> PermanentSize,
                        state |-> ZeroGameState]
    /\ g_render_commands = <<>>
    /\ replayed = <<>>
    /\ g_running = TRUE
    /\ platform \in Platforms
    \* the load before the loop
    /\ module \in Modules \cup {"none"}
    /\ g_game_code = CodeFor(module)
    /\ pc = FirstStep(platform)
    /\ phases = <<>>
    /\ wrote = <<>>
    /\ sim_entry = -1

\* platform_reload_game_code_if_changed, by its outcome: the call table
\* stays, is replaced, or is cleared.
LoopReload ==
    /\ pc = "reload"
    /\ \E m \in Modules \cup {"none"} :
           /\ module' = m
           /\ g_game_code' = CodeFor(m)
    /\ phases' = Append(phases, "reload")
    /\ pc' = AfterReload(platform)
    /\ UNCHANGED <<g_game_memory, g_render_commands, g_running, replayed,
                   wrote, sim_entry, loopfixed>>

\* process_x11_events, the PeekMessage loop, the NSEvent loop.
LoopEvents ==
    /\ pc = "events"
    /\ platform \in PollingPlatforms
    /\ \E quit \in BOOLEAN : g_running' = (g_running /\ ~quit)
    /\ phases' = Append(phases, "events")
    /\ pc' = AfterEvents(platform)
    /\ UNCHANGED <<g_game_code, module, g_game_memory, g_render_commands,
                   replayed, wrote, sim_entry, loopfixed>>

\* sokol delivers events through event() between two calls of frame(), and
\* ends the frames itself when the window is closed.
SokolEvent ==
    /\ platform = "sokol"
    /\ pc = "reload"
    /\ phases = <<>>
    /\ \E quit \in BOOLEAN :
           /\ g_running' = ~quit
           /\ pc' = IF quit THEN "cleanup" ELSE pc
    /\ phases' = <<"events">>
    /\ UNCHANGED <<g_game_code, module, g_game_memory, g_render_commands,
                   replayed, wrote, sim_entry, loopfixed>>

\* "Reset render commands"
LoopResetCommands ==
    /\ pc = "clear"
    /\ g_render_commands' = ResetRenderCommands(g_render_commands)
    /\ pc' = "sim"
    /\ UNCHANGED <<g_game_code, module, g_game_memory, g_running, replayed,
                   phases, wrote, sim_entry, loopfixed>>

\* "Update and render game"
LoopSimulate ==
    /\ pc = "sim"
    /\ IF g_game_code.is_valid
       THEN LET r == ModuleCall(module, g_game_memory)
            IN /\ g_game_memory' = r.memory
               /\ g_render_commands' = g_render_commands \o r.cmds
               /\ wrote' = r.cmds
               /\ sim_entry' = Len(g_render_commands)
               /\ phases' = Append(phases, "sim")
       ELSE /\ wrote' = <<>>
            /\ sim_entry' = -1
            /\ UNCHANGED <<g_game_memory, g_render_commands, phases>>
    /\ pc' = "replay"
    /\ UNCHANGED <<g_game_code, module, g_running, replayed, loopfixed>>

\* "Execute render commands"
LoopReplay ==
    /\ pc = "replay"
    /\ LET x == execute_render_commands(ReaderOf(platform), g_render_commands)
       IN /\ replayed' = x.dispatched
          /\ pc' = IF x.returns THEN "reset" ELSE "hung"
          /\ phases' = IF x.returns THEN Append(phases, "replay") ELSE phases
    /\ UNCHANGED <<g_game_code, module, g_game_memory, g_render_commands,
                   g_running, wrote, sim_entry, loopfixed>>

\* "Reset input transitions", then the loop test
LoopResetInput ==
    /\ pc = "reset"
    /\ pc' = IF g_running THEN FirstStep(platform) ELSE "cleanup"
    /\ phases' = <<>>
    /\ UNCHANGED <<g_game_code, module, g_game_memory, g_render_commands,
                   g_running, replayed, wrote, sim_entry, loopfixed>>

\* platform_unload_game_code after the loop
LoopCleanup ==
    /\ pc = "cleanup"
    /\ module' = "none"
    /\ pc' = "exited"
    /\ UNCHANGED <<g_game_code, g_game_memory, g_render_commands, g_running,
                   replayed, phases, wrote, sim_entry, loopfixed>>

NextLoop ==
    \/ LoopReload
    \/ LoopEvents
    \/ SokolEvent
    \/ LoopResetCommands
    \/ LoopSimulate
    \/ LoopReplay
    \/ LoopResetInput
    \/ LoopCleanup

SpecLoop == InitLoop /\ [][NextLoop]_vars

\* ================================================================== input
\* The input handling of the four host loops: events are handled where the
\* host polls them (through event() between two frames for sokol), the
\* simulation call is handed &g_game_input, and the counts are reset at the
\* end of the iteration.
EventButtons == {"move_up", "action", "mouse_buttons_1"}
InputEvents ==
    {ButtonEvent(b, d) : b \in EventButtons, d \in BOOLEAN}
        \cup {MotionEvent(1, 1)}
FrameTimes == {1}

inputfixed == <<lock_tmp, libgame, temp_files, loaded_modules,
                g_dll_load_counter, g_game_dll, trace, prev_suffix,
                polled_time, issued, init_runs, init_by, arenavars,
                rendervars, platform, racevars, g_game_memory,
                g_render_commands, replayed, g_running, phases, wrote,
                sim_entry>>

InitInput ==
    /\ ArenaIdle
    /\ RenderIdle
    /\ RaceIdle
    /\ lock_tmp = FALSE
    /\ libgame = NoFile
    /\ temp_files = <<>>
    /\ loaded_modules = <<>>
    /\ g_dll_load_counter = 0
    /\ g_game_dll = ZeroDLL
    /\ trace = <<>>
    /\ prev_suffix = -1
    /\ polled_time = -1
    /\ issued = {}
    /\ init_runs = 0
    /\ init_by = NullHandle
    /\ g_game_memory = [is_initialized |-> FALSE,
                        permanent_storage_size |-> PermanentSize,
                        permanent_storage |-> 0,
                        transient_storage_size |-> TransientSize,
                        transient_storage |-> PermanentSize,
                        state |-> ZeroGameState]
    /\ g_render_commands = <<>>
    /\ replayed = <<>>
    /\ g_running = TRUE
    /\ phases = <<>>
    /\ wrote = <<>>
    /\ sim_entry = -1
    /\ platform \in Platforms
    \* the load before the loop
    /\ module \in {"none", "game.cpp"}
    /\ g_game_code = CodeFor(module)
    /\ pc = FirstStep(platform)
    /\ g_game_input = ZeroGameInput
    /\ events = <<>>
    /\ seen = NotCalled

\* platform_reload_game_code_if_changed by its outcome, then
\* g_game_input.dt_for_frame = ...
InputReload ==
    /\ pc = "reload"
    /\ \E m \in {"none", "game.cpp"} :
           /\ module' = m
           /\ g_game_code' = CodeFor(m)
    /\ \E dt \in FrameTimes :
           g_game_input' = [g_game_input EXCEPT !.dt_for_frame = dt]
    /\ pc' = AfterReload(platform)
    /\ UNCHANGED <<events, seen, inputfixed>>

\* One pending event is taken and handled.
InputEvent ==
    /\ \/ pc = "events" /\ platform \in PollingPlatforms
       \/ pc = "reload" /\ platform = "sokol"
    /\ Len(events) < MaxEvents
    /\ \E ev \in InputEvents :
           /\ g_game_input' = HandleEvent(g_game_input, ev)
           /\ events' = Append(events,
                  [ev |-> ev,
                   was |-> IF ev.type = "button"
                           THEN ButtonOf(g_game_input, ev.button).ended_down
                           ELSE FALSE])
    /\ UNCHANGED <<pc, module, g_game_code, seen, inputfixed>>

\* The poll loop finds no event pending.
InputEventsDone ==
    /\ pc = "events"
    /\ platform \in PollingPlatforms
    /\ pc' = AfterEvents(platform)
    /\ UNCHANGED <<module, g_game_code, inputvars, inputfixed>>

\* "Reset render commands"
InputResetCommands ==
    /\ pc = "clear"
    /\ pc' = "sim"
    /\ UNCHANGED <<module, g_game_code, inputvars, inputfixed>>

\* "Update and render game": the call receives &g_game_input.
InputSimulate ==
    /\ pc = "sim"
    /\ seen' = IF g_game_code.is_valid
               THEN [called |-> TRUE, input |-> g_game_input]
               ELSE NotCalled
    /\ pc' = "replay"
    /\ UNCHANGED <<module, g_game_code, g_game_input, events, inputfixed>>

\* "Execute render commands"
InputReplay ==
    /\ pc = "replay"
    /\ pc' = "reset"
    /\ UNCHANGED <<module, g_game_code, inputvars, inputfixed>>

\* "Reset input transitions"
InputReset ==
    /\ pc = "reset"
    /\ g_game_input' = reset_input_half_transitions(g_game_input)
    /\ events' = <<>>
    /\ seen' = NotCalled
    /\ pc' = FirstStep(platform)
    /\ UNCHANGED <<module, g_game_code, inputfixed>>

NextInput ==
    \/ InputReload
    \/ InputEvent
    \/ InputEventsDone
    \/ InputResetCommands
    \/ InputSimulate
    \/ InputReplay
    \/ InputReset

SpecInput == InitInput /\ [][NextInput]_vars

\* ===================================================== loader and build
\* platform_load_game_code statement by statement, with the build script
\* (touch lock.tmp; clang++ -o <source>; rm -f lock.tmp) running between
\* any two of its file-system calls.  The host is at "access", "copy",
\* "dlopen" or "stat" inside a load, at "poll" before the reload check and
\* at "frame" for the rest of an iteration.
racefixed == <<g_game_memory, g_render_commands, g_running, trace,
               prev_suffix, polled_time, issued, init_runs, init_by,
               replayed, arenavars, rendervars, loopvars, inputvars>>

InitRace ==
    /\ ArenaIdle
    /\ RenderIdle
    /\ LoopIdle
    /\ InputIdle
    /\ lock_tmp = FALSE
    /\ libgame \in {NoFile} \cup
                   [exists : {TRUE}, mtime : {1}, kind : BuildKinds]
    /\ temp_files = <<>>
    /\ loaded_modules = <<>>
    /\ g_dll_load_counter = 0
    /\ g_game_dll = ZeroDLL
    /\ g_game_code = ZeroGameCode
    /\ g_game_memory = [is_initialized |-> FALSE,
                        permanent_storage_size |-> PermanentSize,
                        permanent_storage |-> 0,
                        transient_storage_size |-> TransientSize,
                        transient_storage |-> PermanentSize,
                        state |-> ZeroGameState]
    /\ g_render_commands = <<>>
    /\ g_running = TRUE
    /\ trace = <<>>
    /\ prev_suffix = -1
    /\ polled_time = -1
    /\ issued = {}
    /\ init_runs = 0
    /\ init_by = NullHandle
    /\ replayed = <<>>
    /\ pc = "access"
    /\ result = ZeroDLL
    /\ build = "idle"
    /\ copied_from = NoFile

\* `return result;` of platform_load_game_code, the assignment to the
\* host's PlatformDLL and platform_get_game_code on it.
RaceReturn(r, modules) ==
    /\ result' = r
    /\ g_game_dll' = r
    /\ g_game_code' = platform_get_game_code(r, modules).code
    /\ pc' = "frame"

\* PlatformDLL result = {}; if (platform_file_exists(lock_path)) return;
\* otherwise the temp path is made from g_dll_load_counter++.
RaceAccess ==
    /\ pc = "access"
    /\ IF platform_file_exists(lock_tmp)
       THEN /\ RaceReturn(ZeroDLL, loaded_modules)
            /\ UNCHANGED g_dll_load_counter
       ELSE /\ g_dll_load_counter < MaxLoads
            /\ result' = [ZeroDLL EXCEPT !.temp_dll_path = g_dll_load_counter]
            /\ g_dll_load_counter' = g_dll_load_counter + 1
            /\ pc' = "copy"
            /\ UNCHANGED <<g_game_dll, g_game_code>>
    /\ UNCHANGED <<fsvars, loaded_modules, build, copied_from, racefixed>>

\* platform_copy_file(source_dll_path, result.temp_dll_path)
RaceCopy ==
    /\ pc = "copy"
    /\ temp_files' = platform_copy_file(libgame, temp_files,
                                        result.temp_dll_path)
    /\ copied_from' = libgame
    /\ pc' = "dlopen"
    /\ UNCHANGED <<lock_tmp, libgame, loaded_modules, g_dll_load_counter,
                   g_game_dll, g_game_code, result, build, racefixed>>

\* result.handle = dlopen(result.temp_dll_path, RTLD_NOW)
RaceOpen ==
    /\ pc = "dlopen"
    /\ LET handle == dlopen(temp_files, result.temp_dll_path)
       IN IF handle = NullHandle
          THEN /\ RaceReturn(result, loaded_modules)
               /\ UNCHANGED loaded_modules
          ELSE /\ result' = [result EXCEPT !.handle = handle]
               /\ loaded_modules' =
                      [h \in (DOMAIN loaded_modules) \cup {handle} |->
                          IF h = handle THEN temp_files[result.temp_dll_path]
                          ELSE loaded_modules[h]]
               /\ pc' = "stat"
               /\ UNCHANGED <<g_game_dll, g_game_code>>
    /\ UNCHANGED <<fsvars, g_dll_load_counter, build, copied_from, racefixed>>

\* result.last_write_time = platform_get_file_write_time(source_dll_path);
\* result.is_valid = true; return result;
RaceStat ==
    /\ pc = "stat"
    /\ RaceReturn([result EXCEPT
                      !.last_write_time = platform_get_file_write_time(libgame),
                      !.is_valid = TRUE],
                  loaded_modules)
    /\ UNCHANGED <<fsvars, loaded_modules, g_dll_load_counter, build, copied_from,
                   racefixed>>

\* The rest of an iteration, up to the next reload check.
RaceFrame ==
    /\ pc = "frame"
    /\ pc' = "poll"
    /\ UNCHANGED <<fsvars, loaded_modules, g_dll_load_counter, g_game_dll,
                   g_game_code, racevars, racefixed>>

\* platform_reload_game_code_if_changed up to the call of
\* platform_load_game_code.
RacePoll ==
    /\ pc = "poll"
    /\ LET new_write_time == platform_get_file_write_time(libgame)
       IN IF platform_file_time_changed(g_game_dll.last_write_time,
                                        new_write_time)
          THEN LET u == platform_unload_game_code(g_game_dll, temp_files,
                                                  loaded_modules)
               IN /\ g_game_dll' = u.dll
                  /\ temp_files' = u.files
                  /\ loaded_modules' = u.modules
                  /\ pc' = "access"
          ELSE /\ pc' = "frame"
               /\ UNCHANGED <<g_game_dll, temp_files, loaded_modules>>
    /\ UNCHANGED <<lock_tmp, libgame, g_dll_load_counter, g_game_code,
                   racevars, racefixed>>

\* The write times a file written now can get: st_mtime does not go back
\* and has the granularity of a second.
WriteTimes ==
    {t \in 1..MaxTime : t >= libgame.mtime /\ t <= libgame.mtime + 1}

\* touch lock.tmp
BuildLock ==
    /\ build = "idle"
    /\ lock_tmp' = TRUE
    /\ build' = "locked"
    /\ UNCHANGED <<libgame, temp_files, loaded_modules, g_dll_load_counter,
                   g_game_dll, g_game_code, pc, result, copied_from, racefixed>>

\* clang++ ... -o <source>: the output is created and partly written.
BuildWrite ==
    /\ build = "locked"
    /\ \E t \in WriteTimes :
           libgame' = [exists |-> TRUE, mtime |-> t, kind |-> "partial"]
    /\ build' = "writing"
    /\ UNCHANGED <<lock_tmp, temp_files, loaded_modules, g_dll_load_counter,
                   g_game_dll, g_game_code, pc, result, copied_from, racefixed>>

\* The linker finishes the output.
BuildClose ==
    /\ build = "writing"
    /\ \E t \in WriteTimes, k \in BuildKinds :
           libgame' = [exists |-> TRUE, mtime |-> t, kind |-> k]
    /\ build' = "written"
    /\ UNCHANGED <<lock_tmp, temp_files, loaded_modules, g_dll_load_counter,
                   g_game_dll, g_game_code, pc, result, copied_from, racefixed>>

\* rm -f lock.tmp
BuildUnlock ==
    /\ build = "written"
    /\ lock_tmp' = FALSE
    /\ build' = "idle"
    /\ UNCHANGED <<libgame, temp_files, loaded_modules, g_dll_load_counter,
                   g_game_dll, g_game_code, pc, result, copied_from, racefixed>>

NextRace ==
    \/ RaceAccess
    \/ RaceCopy
    \/ RaceOpen
    \/ RaceStat
    \/ RaceFrame
    \/ RacePoll
    \/ BuildLock
    \/ BuildWrite
    \/ BuildClose
    \/ BuildUnlock

SpecRace == InitRace /\ [][NextRace]_vars

\* ================================================================ claims
\* The step of the host that polls for a changed module.
ReloadStep == pc = "reload" /\ pc' = "events"
\* A host step that called platform_load_game_code.
LoadCallStep == pc \in {"load", "reload"} /\ pc' # pc /\ Has(trace', "load")
Before(s, a, b) == \E i, j \in DOMAIN s : i < j /\ s[i] = a /\ s[j] = b

\* C1: a poll made with the lock absent and the source's write time
\* different from the stored one (older or newer) does exactly one unload
\* followed by exactly one load, leaves the previous temp file deleted, and
\* generates a temp path whose suffix is one more than that of the previous
\* temp path.
C1_ReloadLaw ==
    [][(ReloadStep /\ ~lock_tmp
        /\ platform_get_file_write_time(libgame) # g_game_dll.last_write_time)
       => /\ Count(trace', "unload") = 1
          /\ Count(trace', "load") = 1
          /\ Before(trace', "unload", "load")
          /\ g_game_dll.temp_dll_path # EmptyPath
                => g_game_dll.temp_dll_path \notin DOMAIN temp_files'
          /\ g_game_dll'.temp_dll_path # EmptyPath
          /\ prev_suffix # -1
                => g_game_dll'.temp_dll_path = prev_suffix + 1
          /\ libgame.exists
                => g_game_dll'.temp_dll_path \in DOMAIN temp_files']_vars

\* A poll that closed the first module, deleted its temp copy and loaded a
\* copy of the changed source under the next suffix.
C1_Witness ==
    /\ pc = "events" /\ ~lock_tmp
    /\ Before(trace, "dlclose", "unlink") /\ Before(trace, "unlink", "copy")
    /\ g_game_dll.is_valid
    /\ g_game_dll.temp_dll_path = 1
    /\ DOMAIN temp_files = {1}
    /\ g_game_dll.last_write_time = 1

\* C2: a call of platform_load_game_code made while the lock file exists
\* returns an invalid handle and touches nothing: no copy, no dlopen, no new
\* temp file, no new open module, the counter and the source as they were.
C2_LockedLoad ==
    [][(LoadCallStep /\ lock_tmp)
       => /\ ~g_game_dll'.is_valid
          /\ g_game_dll'.handle = NullHandle
          /\ g_game_dll'.temp_dll_path = EmptyPath
          /\ ~Has(trace', "copy") /\ ~Has(trace', "dlopen")
          /\ g_dll_load_counter' = g_dll_load_counter
          /\ DOMAIN temp_files' \subseteq DOMAIN temp_files
          /\ DOMAIN loaded_modules' \subseteq DOMAIN loaded_modules
          /\ libgame' = libgame]_vars

\* A reload blocked by the lock after a module had been loaded.
C2_Witness ==
    /\ pc = "events" /\ lock_tmp /\ libgame.exists
    /\ Has(trace, "load") /\ Has(trace, "dlclose")
    /\ g_game_dll = ZeroDLL
    /\ g_dll_load_counter = 1

\* C3: a poll that finds the write time it has stored (as it does when a
\* valid handle is held and the time is the one the previous poll read)
\* does nothing but read the time: the handle, the call table, the counter,
\* the open modules and all files are unchanged.
C3_UnchangedPoll ==
    [][(ReloadStep
        /\ \/ platform_get_file_write_time(libgame)
                  = g_game_dll.last_write_time
           \/ /\ g_game_dll.is_valid
              /\ platform_get_file_write_time(libgame) = polled_time)
       => /\ trace' = <<"stat">>
          /\ UNCHANGED <<g_game_dll, g_game_code, g_dll_load_counter,
                         loaded_modules, temp_files, lock_tmp, libgame>>]_vars

\* The second of two polls of an unchanged source, a valid module loaded.
C3_Witness ==
    /\ pc = "events" /\ trace = <<"stat">>
    /\ g_game_dll.is_valid /\ g_game_code.is_valid
    /\ polled_time = g_game_dll.last_write_time
    /\ g_game_memory.is_initialized

\* C4: after a soft load failure the host retries on its next iteration:
\* a poll made without a valid call table, the lock absent and the build
\* output a loadable module exporting the entry point, ends with a valid
\* handle and a valid call table.
C4_RetryRecovers ==
    [][(ReloadStep /\ ~g_game_code.is_valid /\ ~lock_tmp
        /\ libgame.exists /\ HasEntry(libgame.kind))
       => (g_game_dll'.is_valid /\ g_game_code'.is_valid)]_vars

\* C5: when the load made inside a poll fails, the host holds an invalid
\* PlatformDLL and the zeroed call table, the module loaded before is closed
\* and its temp file deleted; nothing but the next poll (or the final
\* unload) changes the handle or the call table.
C5_FailedReload ==
    [][/\ (ReloadStep /\ Has(trace', "load") /\ ~g_game_dll'.is_valid)
          => /\ g_game_code' = ZeroGameCode
             /\ g_game_dll'.handle = NullHandle
             /\ g_game_dll.handle \notin DOMAIN loaded_modules'
             /\ g_game_dll.temp_dll_path \notin DOMAIN temp_files'
       /\ pc \in {"events", "sim", "replay", "reset"}
          => UNCHANGED <<g_game_dll, g_game_code>>]_vars

\* A running module was unloaded by a poll whose load the lock blocked.
C5_Witness ==
    /\ pc = "events" /\ lock_tmp
    /\ Before(trace, "dlclose", "load") /\ Before(trace, "unlink", "load")
    /\ ~g_game_dll.is_valid /\ g_game_code = ZeroGameCode
    /\ g_game_memory.is_initialized
    /\ temp_files = <<>> /\ loaded_modules = <<>>

\* C6: the simulation entry point is called exactly when the call table is
\* valid; an iteration without a valid call table writes no command, goes
\* on to the replay and the input reset and then to the loop test, and the
\* host never crashes.
C6_SkipNotFatal ==
    /\ [](pc # "crashed")
    /\ [][/\ (pc = "sim" /\ pc' # pc)
             => /\ Has(trace', "update_and_render") <=> g_game_code.is_valid
                /\ pc' = "replay"
                /\ ~g_game_code.is_valid
                      => /\ g_render_commands' = <<>>
                         /\ g_game_memory' = g_game_memory
          /\ (pc = "replay" /\ pc' # pc)
             => (pc' = "reset" /\ trace' = <<"replay">>
                 /\ replayed' = g_render_commands)
          /\ (pc = "reset" /\ pc' # pc)
             => (trace' = <<"reset_input">> /\ pc' = LoopTest)]_vars

\* An iteration that skipped the simulation is back at the poll.
C6_Witness ==
    /\ pc = "reload" /\ trace = <<"reset_input">>
    /\ ~g_game_code.is_valid /\ replayed = <<>> /\ g_render_commands = <<>>
    /\ g_running

\* C7: when the opened module lacks game_update_and_render, the call table
\* the host inspects is invalid with a null entry pointer, "Failed to load
\* game functions" is printed, and no simulation call is made while that
\* module is the one held.
C7_MissingEntry ==
    [][/\ (LoadCallStep /\ g_game_dll'.is_valid
           /\ ~HasEntry(loaded_modules'[g_game_dll'.handle]))
          => /\ ~g_game_code'.is_valid
             /\ g_game_code'.update_and_render = NullHandle
             /\ Has(trace', "print:Failed to load game functions")
       /\ (pc = "sim" /\ pc' # pc /\ g_game_dll.is_valid
           /\ ~HasEntry(loaded_modules[g_game_dll.handle]))
          => /\ ~Has(trace', "update_and_render")
             /\ g_game_memory' = g_game_memory]_vars

\* The host skipped the simulation while holding a module without the
\* entry point.
C7_Witness ==
    /\ pc = "replay" /\ trace = <<>>
    /\ g_game_dll.is_valid /\ ~g_game_code.is_valid
    /\ loaded_modules[g_game_dll.handle] = "noentry"

\* C8: at most one temp copy exists at any time, and every unload leaves
\* the handle's module closed and its temp file deleted.
C8_NoTempAccumulation ==
    /\ [](Cardinality(DOMAIN temp_files) <= 1)
    /\ [][(pc # pc' /\ Has(trace', "unload"))
          => /\ g_game_dll.handle \notin DOMAIN loaded_modules'
             /\ g_game_dll.temp_dll_path \notin DOMAIN temp_files'
             /\ g_game_dll.temp_dll_path \in DOMAIN temp_files
                   => Has(trace', "unlink")
             /\ g_game_dll.handle \in DOMAIN loaded_modules
                   => Has(trace', "dlclose")]_vars

\* After three temp paths were generated only the latest copy is on disk.
C8_Witness ==
    /\ g_dll_load_counter = 3
    /\ DOMAIN temp_files = {2}
    /\ pc = "events"

\* C9: the load counter never decreases; a load call with the lock absent
\* uses the counter's value as the suffix of its temp path, a suffix never
\* generated before, and adds one to the counter; any other step leaves
\* the counter alone.
C9_CounterUnique ==
    [][/\ g_dll_load_counter' >= g_dll_load_counter
       /\ IF LoadCallStep /\ ~lock_tmp
          THEN /\ g_game_dll'.temp_dll_path = g_dll_load_counter
               /\ g_game_dll'.temp_dll_path \notin issued
               /\ g_dll_load_counter' = g_dll_load_counter + 1
          ELSE g_dll_load_counter' = g_dll_load_counter]_vars

\* A load attempt that failed to open its copy, followed by another one.
C9_Witness ==
    /\ issued = {0, 1}
    /\ g_dll_load_counter = 2
    /\ 0 \notin DOMAIN temp_files
    /\ g_game_dll.temp_dll_path = 1
    /\ ~g_game_dll.is_valid

\* C10: load, unload and reload leave GameMemory untouched, no step changes
\* the regions' pointers and sizes or clears is_initialized, and the
\* module's initialisation block runs at most once.
C10_StateSurvivesReload ==
    /\ [](init_runs <= 1)
    /\ [](g_game_memory.is_initialized <=> init_runs = 1)
    /\ [][/\ pc \in {"load", "reload", "cleanup"}
             => g_game_memory' = g_game_memory
          /\ g_game_memory.is_initialized => g_game_memory'.is_initialized
          /\ [g_game_memory' EXCEPT !.state = 0, !.is_initialized = FALSE]
             = [g_game_memory EXCEPT !.state = 0, !.is_initialized = FALSE]
         ]_vars

\* The second module loaded continued from the state the first one left.
C10_Witness ==
    /\ pc = "replay" /\ trace = <<"update_and_render">>
    /\ g_game_code.update_and_render = 2
    /\ init_by = 1 /\ init_runs = 1
    /\ g_game_memory.state.rearrange_timer = RearrangeTicks

\* ------------------------------------------------------ arena claims
\* x rounded up to a multiple of a, in unbounded arithmetic.
RoundUp(x, a) == ((x + a - 1) \div a) * a
\* A step that attempted a push.
PushStep == npush' = npush + 1

\* C11: a push_size whose request does not fit (the used offset rounded up
\* to the alignment, plus size_bytes, is above size) traps, and does so
\* before used changes and without returning a pointer.
C11_PushTraps ==
    [][(PushStep /\ RoundUp(arena.used, last'.alignment) + last'.size_bytes
                        > arena.size)
       => (trapped' /\ arena'.used = arena.used /\ last'.result = 0)]_vars

\* C12: 0 <= used <= size in every state, whatever sequence of pushes,
\* clear, direct reset, checkpoint begin and checkpoint end led to it.
C12_UsedWithinSize == arena.used >= 0 /\ arena.used <= arena.size

\* A checkpoint was ended after a clear and raised used again.
C12_Witness ==
    /\ last.op = "end" /\ arena.used > last.used_before
    /\ npush >= 2 /\ ~trapped

RECURSIVE SumAligned(_)
\* Sum of the sizes, each rounded up to its own alignment.
SumAligned(ps) ==
    IF ps = <<>> THEN 0
    ELSE SumAligned(SubSeq(ps, 1, Len(ps) - 1))
         + RoundUp(ps[Len(ps)][1], ps[Len(ps)][2])

RECURSIVE SumPadded(_)
\* Sum of the sizes plus, before each push, the bytes that bring the offset
\* reached so far (as a usize) up to a multiple of that push's alignment.
SumPadded(ps) ==
    IF ps = <<>> THEN 0
    ELSE LET before == SumPadded(SubSeq(ps, 1, Len(ps) - 1))
             size_bytes == ps[Len(ps)][1]
             alignment == ps[Len(ps)][2]
             padding == (alignment - ((before % UsizeMod) % alignment))
                            % alignment
         IN before + padding + size_bytes

\* C13 as stated: after successful pushes on a fresh arena, used is the sum
\* of the sizes each rounded up to its alignment.
C13_SumOfAlignedSizes ==
    (fresh /\ ~trapped) => arena.used = SumAligned(pushed)

\* C13 amended: after successful pushes on a fresh arena, used is, modulo
\* the usize range, the sum of the sizes plus the padding that rounds the
\* running offset (not the size) up to each push's alignment.
C13_SumOfPaddedSizes ==
    (fresh /\ ~trapped) => arena.used = SumPadded(pushed) % UsizeMod

\* Two pushes where padding was inserted and the two sums differ.
C13_Witness ==
    /\ fresh /\ ~trapped /\ Len(pushed) >= 2
    /\ arena.used > pushed[1][1] + pushed[2][1]
    /\ arena.used # SumAligned(pushed)
    /\ arena.used = SumPadded(pushed)

\* C14: the address a successful push returns (base + offset) is a multiple
\* of the requested alignment, on the render arena and on the permanent
\* arena that starts sizeof(GameState) into permanent_storage.
C14_PointerAligned ==
    (last.op = "push" /\ ~last.trap) => last.result % last.alignment = 0

\* A step that ended a checkpoint.
EndStep == Len(temps') = Len(temps) - 1 /\ last'.op = "end"

\* C15: ending a checkpoint leaves used at the value it had when that
\* checkpoint was made, whatever was pushed in between; with nested
\* checkpoints each end restores its own checkpoint's offset.
C15_CheckpointLaw ==
    [][EndStep => arena'.used = begin_used[last'.index]]_vars

\* The inner of two nested checkpoints was ended first, after a push, and
\* used went back to the inner offset, above the outer one.
C15_Witness ==
    /\ last.op = "end" /\ last.index = 2 /\ Len(temps) = 1
    /\ last.used_before > arena.used
    /\ arena.used > temps[1].saved_used
    /\ arena.used > 0

\* ------------------------------------------------- render protocol claims
IsPrefix(s, t) == Len(s) <= Len(t) /\ \A i \in DOMAIN s : s[i] = t[i]
\* Every command written this frame has a case in the reader's switch.
AllRecognised == \A i \in DOMAIN written : Supports(reader, written[i].cmd.type)

\* C16: commands of kinds the reader recognises, appended with push_struct
\* to a buffer that started at used = 0, are replayed one dispatch per
\* command, in write order, with the written field values, and the cursor
\* ends exactly at used.
C16_RoundTrip ==
    /\ (rpc \in {"replay", "done"}) => IsPrefix(dispatched, written)
    /\ (rpc = "replay" /\ AllRecognised) => (iterations = 0 /\ at <= arena.used)
    /\ (rpc = "done" /\ AllRecognised)
           => (dispatched = written /\ at = arena.used)

\* The macOS reader finished a frame of three commands that holds a Sprite
\* and an AtlasSprite.
C16_Witness ==
    /\ rpc = "done" /\ reader = "macos" /\ Len(written) = 3
    /\ dispatched = written /\ at = arena.used /\ at > 0
    /\ \E i, j \in DOMAIN written :
           /\ written[i].T = "RenderCommandSprite"
           /\ written[j].T = "RenderCommandAtlasSprite"

\* C17: when the reader meets a record whose tag it has no case for, the
\* replay returns at once, with no further dispatch.
C17_UnknownTagHalts ==
    [][(/\ rpc = "replay"
        /\ at < arena.used
        /\ ~Supports(reader, LoadWord(cmd_memory, at)))
       => (rpc' = "done" /\ dispatched' = dispatched)]_vars

\* The quads waiting in the vertex buffer, with the texture they will be
\* drawn with.
Pending ==
    [i \in 1..(renderer.vertex_count \div 4) |->
        [quad |-> renderer.global_vertex_buffer[i], texture |-> renderer.bound]]

\* C18: the quads handed to the GPU, followed by those still waiting, are
\* the frame's draw commands in order, each with its own texture; at the end
\* of the frame nothing waits.
C18_BatchingInvisible ==
    /\ (rpc \in {"replay", "done"}) => renderer.drawn \o Pending = immediate
    /\ (rpc = "done") => renderer.vertex_count = 0

\* A frame of three quads went out in two draw calls, the second a batch of
\* two, with a texture change between them.
C18_Witness ==
    /\ rpc = "done" /\ renderer.draw_calls = 2 /\ Len(renderer.drawn) = 3
    /\ renderer.drawn = immediate
    /\ renderer.drawn[1].texture # renderer.drawn[2].texture
    /\ renderer.drawn[2].texture = renderer.drawn[3].texture

\* ------------------------------------------------------- host loop claims
\* A step in which the host called the simulation module.
SimCallStep == pc = "sim" /\ pc' = "replay" /\ g_game_code.is_valid

\* C19: when a simulation call begins the render buffer is empty; a replay
\* never dispatches anything but what this iteration's call wrote, in that
\* order, and once it has returned it has dispatched all of it (nothing
\* when the call was skipped).
C19_FrameBuffer ==
    /\ [][SimCallStep => sim_entry' = 0]_vars
    /\ [](pc \in {"reset", "hung"} => IsPrefix(replayed, wrote))
    /\ [](pc = "reset" => replayed = wrote)
    /\ [](pc = "reset" /\ ~g_game_code.is_valid => replayed = <<>>)

\* The macOS host finished the replay of a frame that was not its first:
\* the buffer held the previous frame's commands before the reset.
C19_Witness ==
    /\ pc = "reset" /\ platform = "macos" /\ module = "game.cpp"
    /\ sim_entry = 0 /\ Len(wrote) > 1 /\ replayed = wrote
    /\ g_game_memory.state.rearrange_timer = RearrangeTicks

\* What one iteration does when events are polled first.
EventsFirst == {<<"events", "reload", "sim", "replay">>,
                <<"events", "reload", "replay">>}
\* What one iteration does when the reload check comes first.
ReloadFirst == {<<"reload", "events", "sim", "replay">>,
                <<"reload", "events", "replay">>}

EventsOf(b) == SelectSeq(events, LAMBDA e : e.ev.type = "button" /\ e.ev.button = b)
Differing(es) == Cardinality({i \in DOMAIN es : es[i].ev.is_down # es[i].was})
EventStep == events' # events /\ events' # <<>>
ResetStep == pc = "reset" /\ pc' # pc

\* C21: for the events a button received since the last reset,
\* half_transition_count is the number of events whose is_down differed
\* from the button's state at the time and ended_down is the last event's
\* is_down; an event with unchanged is_down changes nothing; a down event
\* followed by an up event leaves the count at 2 and the button up.
C21_HalfTransitionLaw ==
    /\ [](\A b \in Buttons :
             LET es == EventsOf(b)
                 state == ButtonOf(g_game_input, b)
             IN /\ state.half_transition_count = Differing(es)
                /\ es # <<>> => state.ended_down = es[Len(es)].ev.is_down
                /\ (/\ Len(es) = 2
                    /\ ~es[1].was /\ es[1].ev.is_down /\ ~es[2].ev.is_down)
                   => (state.half_transition_count = 2 /\ ~state.ended_down))
    /\ [][EventStep =>
             LET e == events'[Len(events')]
             IN (e.ev.type = "button" /\ e.ev.is_down = e.was)
                => g_game_input' = g_game_input]_vars

C21_Witness ==
    /\ Len(events) = 2
    /\ events[1].ev = ButtonEvent("action", TRUE) /\ ~events[1].was
    /\ events[2].ev = ButtonEvent("action", FALSE)
    /\ g_game_input.action = [ended_down |-> FALSE,
                              half_transition_count |-> 2]

\* C22: the reset at the end of an iteration leaves every button's count
\* at 0 and changes nothing else: every ended_down, the mouse position and
\* dt_for_frame are as before.
C22_ResetCountsOnly ==
    [][ResetStep =>
          /\ \A b \in Buttons :
                /\ ButtonOf(g_game_input', b).half_transition_count = 0
                /\ ButtonOf(g_game_input', b).ended_down
                       = ButtonOf(g_game_input, b).ended_down
          /\ g_game_input'.mouse_x = g_game_input.mouse_x
          /\ g_game_input'.mouse_y = g_game_input.mouse_y
          /\ g_game_input'.dt_for_frame = g_game_input.dt_for_frame]_vars

\* After a reset: a key and a mouse button that went down in the iteration
\* are still down with their counts back at 0, the pointer where it moved to.
C22_Witness ==
    /\ pc = FirstStep(platform)
    /\ events = <<>>
    /\ g_game_input.action = [ended_down |-> TRUE,
                              half_transition_count |-> 0]
    /\ g_game_input.mouse_buttons[1] = [ended_down |-> TRUE,
                                        half_transition_count |-> 0]
    /\ g_game_input.mouse_x = 1
    /\ g_game_input.dt_for_frame = 1

\* C23: a count is only zeroed after the iteration's simulation call was
\* handed it: at the reset every button with a counted edge was seen with
\* that count by this iteration's call.
C23_ResetAfterRead ==
    [][ResetStep =>
          \A b \in Buttons :
              ButtonOf(g_game_input, b).half_transition_count > 0
                  => /\ seen.called
                     /\ ButtonOf(seen.input, b).half_transition_count
                            = ButtonOf(g_game_input, b).half_transition_count
      ]_vars

\* ----------------------------------------------------------- cancellation
\* The statements of the loop body after event polling, and the cleanup.
HostFinish == HostSimulate \/ HostReplay \/ HostResetInput \/ HostCleanup

Settled == pc \in {"frame", "poll"}

\* C26: the version in the call table is 0 when the module held open does
\* not export game_get_version, and the value that module's
\* game_get_version returns when it does.
C26_ReportedVersion ==
    (Settled /\ g_game_dll.is_valid) =>
        LET k == loaded_modules[g_game_dll.handle]
        IN g_game_code.version =
               CASE k = "nover" -> 0
                 [] k = "good" -> GAME_CODE_VERSION
                 [] k = "newer" -> GAME_CODE_VERSION + 1

\* A reload replaced a module without the entry point (version 0) by one
\* whose game_get_version returns another value than the host's own.
C26_Witness ==
    /\ Settled
    /\ g_game_dll.is_valid
    /\ g_game_dll.temp_dll_path >= 1
    /\ loaded_modules[g_game_dll.handle] = "newer"
    /\ g_game_code.version = GAME_CODE_VERSION + 1

\* ------------------------------------------------- loader against build
\* C27: with the build script keeping to the lock convention, no temp copy
\* is ever made from a partly written source, so none is handed to dlopen.
C27_NoPartialCopy ==
    \A n \in DOMAIN temp_files : temp_files[n] # "partial"

\* C28: the write time a valid handle stores is the write time of the
\* source as it was copied, and a host that finds the write time unchanged
\* while no build is running holds the module the source now is.
C28_NoRebuildMissed ==
    /\ (Settled /\ g_game_dll.is_valid)
           => g_game_dll.last_write_time = copied_from.mtime
    /\ (/\ Settled
        /\ build = "idle"
        /\ ~lock_tmp
        /\ g_game_dll.is_valid
        /\ ~platform_file_time_changed(
                g_game_dll.last_write_time,
                platform_get_file_write_time(libgame)))
           => loaded_modules[g_game_dll.handle] = libgame.kind

\* ------------------------------------------------------------ call table
\* C29: while the host is in its loop, a valid call table points into the
\* module the PlatformDLL holds open: the handle is valid and non-null, is
\* an open module, and update_and_render was resolved from it.
C29_TableOfOpenModule ==
    (pc \in {"reload", "events", "sim", "replay", "reset"}
         /\ g_game_code.is_valid)
        => /\ g_game_dll.is_valid
           /\ g_game_dll.handle # NullHandle
           /\ g_game_dll.handle \in DOMAIN loaded_modules
           /\ g_game_code.update_and_render = g_game_dll.handle
           /\ HasEntry(loaded_modules[g_game_dll.handle])

\* The simulation call is about to go through the table of a module that
\* replaced an earlier one.
C29_Witness ==
    /\ pc = "sim"
    /\ g_game_code.is_valid
    /\ g_game_dll.temp_dll_path >= 1
    /\ g_game_code.update_and_render = g_game_dll.handle
    /\ DOMAIN loaded_modules = {g_game_dll.handle}

\* ------------------------------------------------------ arena: wraparound
\* C30: whatever size, count and power-of-two alignment a push is given,
\* when it returns used is at most size and the bytes the caller asked for,
\* from the returned pointer on, end at or before base + size.
C30_NoWraparoundBypass ==
    (last.op = "push" /\ ~last.trap) =>
        /\ arena.used <= arena.size
        /\ last.result >= arena.base
        /\ last.result + last.requested <= arena.base + arena.size

\* ------------------------------------------- arena claims, continued
\* C31: end() writes saved_used whatever the arena's state is: it never
\* traps, and when the checkpoint's offset is above used (an outer checkpoint
\* was ended before it, or the arena was cleared) used rises back to it.
C31_MisuseUndetected ==
    [][EndStep => (/\ ~trapped'
                   /\ arena'.used = temps[last'.index].saved_used
                   /\ (temps[last'.index].saved_used > arena.used
                          => arena'.used > arena.used))]_vars

\* The last live checkpoint was ended while used was below its offset, and
\* used rose to that offset with no trap.
C31_Witness ==
    /\ last.op = "end" /\ temps = <<>> /\ ~trapped
    /\ last.used_before < arena.used
    /\ arena.used <= arena.size

\* The bytes a push handed out: from its result, as many as were asked for.
RangeStart(i) == pushed[i][3]
RangeEnd(i) == pushed[i][3] + pushed[i][4]

\* C32: the ranges returned by the pushes since the last reset or rewind
\* lie inside [base, base + size), are pairwise disjoint and start at
\* strictly increasing offsets.
C32_DisjointRanges ==
    /\ \A i \in DOMAIN pushed :
           RangeStart(i) >= arena.base /\ RangeEnd(i) <= arena.base + arena.size
    /\ \A i, j \in DOMAIN pushed :
           i < j => (RangeStart(i) < RangeStart(j) /\ RangeEnd(i) <= RangeStart(j))

\* ----------------------------------- render protocol claims, continued
\* C33: the colour a frame was cleared with is the colour of a Clear command
\* in that frame's own buffer, when the frame has one.
C33_ClearSameFrame ==
    (/\ rpc = "done"
     /\ dispatched = written
     /\ \E i \in DOMAIN written : written[i].T = "RenderCommandClear")
        => \E i \in DOMAIN written :
               /\ written[i].T = "RenderCommandClear"
               /\ renderer.cleared = written[i].cmd.color

\* C34: vertex_count is a multiple of 4 and at most MAX_VERTICES, the quads
\* stored in the vertex buffer are exactly the vertex_count / 4 that fit in
\* it, and at the end of a frame every quad submitted since
\* renderer_begin_frame has been drawn as often as it was submitted.
C34_QuadsOnce ==
    /\ renderer.vertex_count % 4 = 0
    /\ renderer.vertex_count <= MAX_VERTICES
    /\ Len(renderer.global_vertex_buffer) * 4 = renderer.vertex_count
    /\ (rpc \in {"replay", "done"})
           => Len(renderer.drawn) + (renderer.vertex_count \div 4)
                  = Len(immediate)
    /\ (rpc = "done")
           => /\ Len(renderer.drawn) = Len(immediate)
              /\ \A i \in DOMAIN immediate :
                     Count(renderer.drawn, immediate[i])
                         = Count(immediate, immediate[i])

\* A frame of one quad more than the buffer holds, all of one texture: the
\* full buffer was flushed once, the last quad went out at the end.
C34_Witness ==
    /\ rpc = "done" /\ Len(immediate) = MAX_QUADS + 1
    /\ renderer.draw_calls = 2
    /\ Len(renderer.drawn) = MAX_QUADS + 1
    /\ \A i \in DOMAIN renderer.drawn : renderer.drawn[i].texture = 0

\* ----------------------------------------------- input claims, continued
\* What ended_down of button b was at the last reset: the state the first
\* event since then found, or the present one when there was none.
AtLastReset(b) ==
    IF EventsOf(b) = <<>> THEN ButtonOf(g_game_input, b).ended_down
    ELSE EventsOf(b)[1].was

\* C35: between two resets a button's half_transition_count is odd exactly
\* when its ended_down differs from what it was at the last reset; only an
\* event changes ended_down and only the reset lowers a count.
C35_ParityLaw ==
    /\ [](\A b \in Buttons :
             (ButtonOf(g_game_input, b).half_transition_count % 2 = 1)
                 <=> (ButtonOf(g_game_input, b).ended_down # AtLastReset(b)))
    /\ [][~ResetStep =>
             \A b \in Buttons :
                 ButtonOf(g_game_input', b).half_transition_count
                     >= ButtonOf(g_game_input, b).half_transition_count]_vars
    /\ [][~EventStep =>
             \A b \in Buttons :
                 ButtonOf(g_game_input', b).ended_down
                     = ButtonOf(g_game_input, b).ended_down]_vars

\* A key held down since an earlier iteration was released and the release
\* came a second time: the count is 1 and the key is up.
C35_Witness ==
    /\ Len(events) = 2
    /\ events[1].ev = ButtonEvent("move_up", FALSE) /\ events[1].was
    /\ events[2].ev = ButtonEvent("move_up", FALSE) /\ ~events[2].was
    /\ g_game_input.move_up = [ended_down |-> FALSE,
                               half_transition_count |-> 1]

\* ---------------------------------------------- loader claims, continued
\* A call that closed no module and deleted no file.
Untouched(u, files, modules) ==
    /\ u.ev = <<>>
    /\ u.files = files
    /\ u.modules = modules
    /\ ~u.dll.is_valid

\* C36: in every state of the host, a second platform_unload_game_code
\* after a first, and one on the handle a lock-blocked load returned or on a
\* zero-initialised handle, closes no module, deletes no file and leaves
\* is_valid false.
C36_UnloadIdempotent ==
    LET first == platform_unload_game_code(g_game_dll, temp_files,
                                           loaded_modules)
        second == platform_unload_game_code(first.dll, first.files,
                                            first.modules)
        blocked == platform_load_game_code(TRUE, libgame, temp_files,
                                           loaded_modules, g_dll_load_counter)
    IN /\ Untouched(second, first.files, first.modules)
       /\ second.dll = first.dll
       /\ Untouched(platform_unload_game_code(blocked.dll, blocked.files,
                                              blocked.modules),
                    temp_files, loaded_modules)
       /\ Untouched(platform_unload_game_code(ZeroDLL, temp_files,
                                              loaded_modules),
                    temp_files, loaded_modules)

\* The host unloaded a loaded module at exit, closing it and deleting its
\* copy, while another file is still there; a further call finds a handle
\* that holds nothing.
C36_Witness ==
    /\ pc = "exited"
    /\ trace = <<"unload", "dlclose", "unlink">>
    /\ g_game_dll.handle = NullHandle
    /\ g_game_dll.temp_dll_path = EmptyPath
    /\ libgame # NoFile
====
